---- MODULE Spec2Model ----
(***************************************************************************)
(* Footprint MCP server: the encrypted evidence store (EvidenceDatabase),  *)
(* the process-wide derived-key cache of FootprintServer, and the tool     *)
(* handlers that sit on top of both.                                       *)
(*                                                                         *)
(* Strings are sequences of one-character strings, so that the comma-      *)
(* joined tag list, String.split/trim/join and SQLite's LIKE are computed  *)
(* the way the code computes them.                                         *)
(***************************************************************************)
EXTENDS Integers, Sequences, FiniteSets, TLC

VARIABLES
  evidences,             \* table evidences: id -> row
  crypto_keys,           \* table crypto_keys: the salt of row id = 1, 0 when the row is absent
  nextId,                \* number of ids crypto.randomUUID() has handed out
  now,                   \* the clock behind new Date().toISOString()
  password,              \* config.password of each server instance
  derivedKey,            \* FootprintServer.derivedKey, per server instance (0 = null, else a key object)
  keyDerivationPromise,  \* FootprintServer.keyDerivationPromise, per instance (0 = null, else an attempt)
  dbOpen,                \* whether the instance's better-sqlite3 connection is open
  closed,                \* whether close() has run on the instance
  attempts,              \* the derivation attempts (the async IIFE of getDerivedKey) started so far
  keyBytes,              \* heap: the bytes of every key object (Uint8Array) created so far
  calls,                 \* the tool calls in flight, per caller
  captured,              \* history: id -> the content the record was captured with
  exportFiles,           \* the files export-footprints has written: filename -> zip data
  last                   \* history: the last database operation, its arguments, pre-state and result

vars == << evidences, crypto_keys, nextId, now, password, derivedKey,
           keyDerivationPromise, dbOpen, closed, attempts, keyBytes, calls,
           captured, exportFiles, last >>

storeVars  == << evidences, nextId, now >>
keyVars    == << password, derivedKey, keyDerivationPromise, dbOpen, closed,
                 attempts, keyBytes, calls, captured >>
serverVars == << password, derivedKey, keyDerivationPromise, dbOpen, closed,
                 attempts, keyBytes, calls, captured, exportFiles >>

(***************************************************************************)
(* Bounds                                                                  *)
(***************************************************************************)
MaxIds      == 2    \* records created in one behaviour of the tag store
MaxTime     == 1    \* clock ticks
MaxTxnIds   == 2    \* records created in one behaviour of the tag transactions
MaxListIds  == 4    \* records created in one behaviour of the pagination store
MaxLimit    == 3    \* largest limit / offset passed to list()
MaxAttempts == 3    \* key-derivation attempts in one behaviour
MaxCaptures == 2    \* records captured in one behaviour of the server
MaxExportIds == 2   \* records created in one behaviour of the export store
MaxExports  == 1    \* export files written in one behaviour of the export store

Undefined == -1     \* an omitted numeric option (limit, offset)
NULL      == << "NULL" >>   \* SQL NULL / JS null in a TEXT column (no string has this character)

\* JavaScript truthiness of a string | null value
Truthy(x) == x # NULL /\ x # << >>

Min(a, b) == IF a < b THEN a ELSE b
Max(a, b) == IF a > b THEN a ELSE b

(***************************************************************************)
(* JavaScript string primitives                                            *)
(***************************************************************************)
\* String.prototype.trim strips WhiteSpace, which includes U+FEFF, and LineTerminator
IsSpace(c) == c \in {" ", "BOM", "NL", "CR"}

RECURSIVE TrimStart(_)
TrimStart(s) ==
  IF s # << >> /\ IsSpace(Head(s)) THEN TrimStart(Tail(s)) ELSE s

RECURSIVE TrimEnd(_)
TrimEnd(s) ==
  IF s # << >> /\ IsSpace(s[Len(s)]) THEN TrimEnd(SubSeq(s, 1, Len(s) - 1)) ELSE s

\* String.prototype.trim
Trim(s) == TrimEnd(TrimStart(s))

\* String.prototype.split(','): "a,,b" gives ["a", "", "b"], "" gives [""]
RECURSIVE Split(_)
Split(s) ==
  IF \E i \in 1..Len(s) : s[i] = ","
  THEN LET i == CHOOSE j \in 1..Len(s) : s[j] = "," /\ \A k \in 1..(j - 1) : s[k] # ","
       IN  << SubSeq(s, 1, i - 1) >> \o Split(SubSeq(s, i + 1, Len(s)))
  ELSE << s >>

\* Array.prototype.join(',')
RECURSIVE Join(_)
Join(ts) ==
  IF ts = << >> THEN << >>
  ELSE IF Len(ts) = 1 THEN ts[1]
  ELSE ts[1] \o << "," >> \o Join(Tail(ts))

\* Array.prototype.map(t => t.trim())
MapTrim(ts) == [i \in 1..Len(ts) |-> Trim(ts[i])]

\* Array.prototype.filter(t => t.length > 0), also filter(t => t)
RECURSIVE FilterNonEmpty(_)
FilterNonEmpty(ts) ==
  IF ts = << >> THEN << >>
  ELSE IF Len(Head(ts)) > 0 THEN << Head(ts) >> \o FilterNonEmpty(Tail(ts))
  ELSE FilterNonEmpty(Tail(ts))

\* Array.prototype.filter(t => t !== tag)
RECURSIVE FilterNot(_, _)
FilterNot(ts, tag) ==
  IF ts = << >> THEN << >>
  ELSE IF Head(ts) # tag THEN << Head(ts) >> \o FilterNot(Tail(ts), tag)
  ELSE FilterNot(Tail(ts), tag)

\* [...new Set(ts)]: first occurrences, in insertion order
RECURSIVE Dedup(_)
Dedup(ts) ==
  IF ts = << >> THEN << >>
  ELSE LET init == Dedup(SubSeq(ts, 1, Len(ts) - 1))
           x    == ts[Len(ts)]
       IN  IF \E i \in 1..Len(init) : init[i] = x THEN init ELSE Append(init, x)

(***************************************************************************)
(* SQLite primitives                                                       *)
(***************************************************************************)
\* ASCII case folding of the built-in LIKE (PRAGMA case_sensitive_like is never set)
Lower(c) == IF c = "A" THEN "a" ELSE IF c = "B" THEN "b" ELSE c

\* x LIKE p: '%' matches any run of characters, '_' any one character,
\* every other character matches itself without regard to ASCII case
RECURSIVE Like(_, _)
Like(p, s) ==
  IF p = << >> THEN s = << >>
  ELSE IF Head(p) = "%"
       THEN \E k \in 0..Len(s) : Like(Tail(p), SubSeq(s, k + 1, Len(s)))
  ELSE /\ s # << >>
       /\ Head(p) = "_" \/ Lower(Head(p)) = Lower(Head(s))
       /\ Like(Tail(p), Tail(s))

\* column LIKE ? on a nullable TEXT column: NULL LIKE p is NULL, which WHERE treats as false
SqlLike(col, p) == col # NULL /\ Like(p, col)

\* column = ? on a nullable TEXT column (BINARY collation)
SqlEq(col, v) == col # NULL /\ col = v

\* LIMIT l OFFSET o: a negative l means no limit, a negative o means 0
SqlLimitOffset(rows, l, o) ==
  LET off  == IF o < 0 THEN 0 ELSE Min(o, Len(rows))
      rest == SubSeq(rows, off + 1, Len(rows))
  IN  IF l < 0 THEN rest ELSE SubSeq(rest, 1, Min(l, Len(rest)))

\* ORDER BY timestamp DESC, read backwards from idx_timestamp: rows of equal
\* timestamp come out in descending rowid
RECURSIVE OrderByTimestampDesc(_, _)
OrderByTimestampDesc(ev, ids) ==
  IF ids = {} THEN << >>
  ELSE LET first == CHOOSE i \in ids : \A j \in ids :
                       \/ ev[i].timestamp > ev[j].timestamp
                       \/ ev[i].timestamp = ev[j].timestamp /\ ev[i].rowid >= ev[j].rowid
       IN  << first >> \o OrderByTimestampDesc(ev, ids \ {first})

\* the rowid SQLite gives an inserted row of a rowid table: one more than the largest in use
NewRowid(ev) ==
  IF DOMAIN ev = {} THEN 1
  ELSE 1 + (CHOOSE r \in {ev[i].rowid : i \in DOMAIN ev} : \A i \in DOMAIN ev : ev[i].rowid <= r)

(***************************************************************************)
(* Timestamps.  A record's timestamp field holds an instant, counted in    *)
(* seconds from 2024-01-15T10:30:00Z; the TEXT column holds the            *)
(* Date.prototype.toISOString() rendering of it                            *)
(***************************************************************************)
Digits == << "0", "1", "2", "3", "4", "5", "6", "7", "8", "9" >>

\* "2024-01-15"
DayText == << "2", "0", "2", "4", "-", "0", "1", "-", "1", "5" >>

\* "2024-01-15T10:30:0", the rendering of the modelled instants up to the last digit
\* of the seconds
MinuteText == DayText \o << "T", "1", "0", ":", "3", "0", ":", "0" >>

\* seconds from 2024-01-15T00:00:00Z to 2024-01-15T10:30:00Z
SecondsSinceMidnight == 37800

\* toISOString(): YYYY-MM-DDTHH:mm:ss.sssZ
ToISOString(t) == MinuteText \o << Digits[t + 1] >> \o << ".", "0", "0", "0", "Z" >>

\* the same instant written without the fraction of a second: YYYY-MM-DDTHH:mm:ssZ
ToISOSeconds(t) == MinuteText \o << Digits[t + 1] >> \o << "Z" >>

\* the same instant written with a numeric offset: YYYY-MM-DDTHH:mm:ss+00:00
ToISOOffset(t) == MinuteText \o << Digits[t + 1] >> \o << "+", "0", "0", ":", "0", "0" >>

\* new Date(s) on the date-time strings above, on the date-only form (UTC midnight)
\* and on text that is no date (NaN)
DateParse(s) ==
  IF Len(s) >= 19 /\ SubSeq(s, 1, 18) = MinuteText
                  /\ (\E d \in 1..10 : Digits[d] = s[19])
                  /\ SubSeq(s, 20, Len(s)) \in
                       { << "Z" >>, << ".", "0", "0", "0", "Z" >>,
                         << "+", "0", "0", ":", "0", "0" >> }
  THEN [valid |-> TRUE, time |-> (CHOOSE d \in 1..10 : Digits[d] = s[19]) - 1]
  ELSE IF s = DayText THEN [valid |-> TRUE, time |-> 0 - SecondsSinceMidnight]
  ELSE [valid |-> FALSE, time |-> 0]

\* the code unit of a character that occurs in these strings
CharCode(c) ==
  CASE c = "+" -> 43
    [] c = "-" -> 45
    [] c = "." -> 46
    [] c = ":" -> 58
    [] c = "T" -> 84
    [] c = "Z" -> 90
    [] c = "x" -> 120
    [] OTHER   -> 47 + (CHOOSE d \in 1..10 : Digits[d] = c)

\* a <= b on TEXT values under the BINARY collation: memcmp, then the shorter first
TextLessEq(a, b) ==
  LET differ == {k \in 1..Min(Len(a), Len(b)) : a[k] # b[k]}
  IN  IF differ = {} THEN Len(a) <= Len(b)
      ELSE LET k == CHOOSE j \in differ : \A l \in differ : j <= l
           IN  CharCode(a[k]) < CharCode(b[k])

(***************************************************************************)
(* EvidenceDatabase (src/lib/storage/database.ts)                          *)
(***************************************************************************)
\* create(): INSERT of one row under a fresh uuid; createdAt = updatedAt = now
DbCreate(ev, id, f, t) ==
  [i \in DOMAIN ev \cup {id} |->
     IF i = id
     THEN [rowid            |-> NewRowid(ev),
           timestamp        |-> f.timestamp,
           conversationId   |-> f.conversationId,
           encryptedContent |-> f.encryptedContent,
           nonce            |-> f.nonce,
           contentHash      |-> f.contentHash,
           gitCommitHash    |-> f.gitCommitHash,
           gitTimestamp     |-> f.gitTimestamp,
           tags             |-> f.tags,
           updatedAt        |-> t]
     ELSE ev[i]]

\* findById(): the id when the row exists, 0 for null
FindById(ev, id) == IF id \in DOMAIN ev THEN id ELSE 0

\* a pagination tail that appends OFFSET only after a LIMIT
PaginateLimitOnly(rows, limit, offset) ==
  LET off == IF offset = Undefined THEN 0 ELSE offset
  IN  IF limit # Undefined
      THEN IF off > 0 THEN SqlLimitOffset(rows, limit, off)
                      ELSE SqlLimitOffset(rows, limit, 0)
      ELSE rows

\* the pagination tail list() and search() append to their query
Paginate(rows, limit, offset) ==
  LET off == IF offset = Undefined THEN 0 ELSE offset
  IN  IF limit # Undefined
      THEN IF off > 0 THEN SqlLimitOffset(rows, limit, off)
                      ELSE SqlLimitOffset(rows, limit, 0)
      ELSE IF off > 0 THEN SqlLimitOffset(rows, -1, off)
                      ELSE rows

\* list(): SELECT * FROM evidences ORDER BY timestamp DESC [LIMIT ? [OFFSET ?]]
DbList(ev, limit, offset) ==
  Paginate(OrderByTimestampDesc(ev, DOMAIN ev), limit, offset)

\* one tag of search({tags}): the four patterns that stand for "tag is a token of the list"
TagCondition(col, tag) ==
  LET trimmedTag == Trim(tag)
  IN  \/ SqlLike(col, trimmedTag \o << ",", "%" >>)
      \/ SqlLike(col, << "%", "," >> \o trimmedTag \o << ",", "%" >>)
      \/ SqlLike(col, << "%", "," >> \o trimmedTag)
      \/ SqlEq(col, trimmedTag)

\* the WHERE clause search() builds: every condition it pushed, joined by AND
SearchWhere(row, query, tags, dateFrom, dateTo) ==
  /\ (query # NULL /\ Trim(query) # << >>) =>
        LET searchPattern == << "%" >> \o Trim(query) \o << "%" >>
        IN  SqlLike(row.conversationId, searchPattern) \/ SqlLike(row.tags, searchPattern)
  /\ \A k \in 1..Len(tags) : TagCondition(row.tags, tags[k])
  /\ Truthy(dateFrom) => TextLessEq(dateFrom, ToISOString(row.timestamp))
  /\ Truthy(dateTo) => TextLessEq(ToISOString(row.timestamp), dateTo)

\* search(): the ids of the matching rows, ORDER BY timestamp DESC, paginated
DbSearch(ev, query, tags, dateFrom, dateTo, limit, offset) ==
  Paginate(OrderByTimestampDesc(ev,
             {i \in DOMAIN ev : SearchWhere(ev[i], query, tags, dateFrom, dateTo)}),
           limit, offset)

\* an UPDATE of the tags that also rewrites the content hash
UpdateTagsRowsRehashing(ev, id, tags, t) ==
  [i \in DOMAIN ev |->
     IF i = id THEN [ev[i] EXCEPT !.tags = tags, !.updatedAt = t, !.contentHash = << >>]
     ELSE ev[i]]

\* updateTags(): UPDATE ... SET tags = ?, updatedAt = ? WHERE id = ?
UpdateTagsRows(ev, id, tags, t) ==
  [i \in DOMAIN ev |-> IF i = id THEN [ev[i] EXCEPT !.tags = tags, !.updatedAt = t] ELSE ev[i]]

\* updateTags() returns result.changes > 0
UpdateTagsChanged(ev, id) == id \in DOMAIN ev

\* updateTags(): the row rewritten if it exists, and result.changes > 0
UpdateTags(ev, id, tags, t) ==
  [changed |-> UpdateTagsChanged(ev, id), ev |-> UpdateTagsRows(ev, id, tags, t)]

\* updateGitInfo(): UPDATE ... SET gitCommitHash = ?, gitTimestamp = ?, updatedAt = ?
\* WHERE id = ?; throws when no row changed
UpdateGitInfo(ev, id, gitCommitHash, gitTimestamp, t) ==
  [ok |-> id \in DOMAIN ev,
   ev |-> [i \in DOMAIN ev |->
             IF i = id
             THEN [ev[i] EXCEPT !.gitCommitHash = gitCommitHash,
                                !.gitTimestamp = gitTimestamp, !.updatedAt = t]
             ELSE ev[i]]]

\* delete(): DELETE FROM evidences WHERE id = ?
DbDelete(ev, id) == [i \in DOMAIN ev \ {id} |-> ev[i]]

\* addTags(): merge the trimmed non-blank tags into the record's list
AddTags(ev, id, tags, t) ==
  LET validTags == FilterNonEmpty(MapTrim(tags))
      row       == ev[id]
      existingTags ==
        IF row.tags # NULL /\ row.tags # << >>
        THEN FilterNonEmpty(MapTrim(Split(row.tags)))
        ELSE << >>
      mergedTags == Dedup(existingTags \o validTags)
  IN  IF Len(tags) = 0 THEN [ok |-> FALSE, ev |-> ev]
      ELSE IF Len(validTags) = 0 THEN [ok |-> FALSE, ev |-> ev]
      ELSE IF FindById(ev, id) = 0 THEN [ok |-> FALSE, ev |-> ev]
      ELSE [ok |-> TRUE, ev |-> UpdateTagsRows(ev, id, Join(mergedTags), t)]

\* the new tag list renameTag() writes for one record
RenamedTags(rowTags, oldTag, newTag) ==
  LET tags    == MapTrim(Split(rowTags))
      newTags == [k \in 1..Len(tags) |-> IF tags[k] = oldTag THEN newTag ELSE tags[k]]
  IN  Join(newTags)

\* the new tag list removeTag() writes for one record
RemovedTags(rowTags, tag) ==
  LET tags == FilterNot(MapTrim(Split(rowTags)), tag)
  IN  IF Len(tags) > 0 THEN Join(tags) ELSE NULL

\* the for loop of renameTag() (newTag a string) and of removeTag() (remove = TRUE)
\* over the rows search() returned; the failAt-th call of updateTags() throws
RECURSIVE TagLoop(_, _, _, _, _, _, _, _)
TagLoop(rows, acc, todo, remove, oldTag, newTag, t, failAt) ==
  IF todo = << >> \/ acc.threw THEN acc
  ELSE LET id == Head(todo)
           rowTags == rows[id].tags
       IN  IF rowTags = NULL \/ rowTags = << >>
           THEN TagLoop(rows, acc, Tail(todo), remove, oldTag, newTag, t, failAt)
           ELSE IF acc.calls + 1 = failAt
           THEN [acc EXCEPT !.threw = TRUE]
           ELSE TagLoop(rows,
                  [ev    |-> UpdateTagsRows(acc.ev, id,
                               IF remove THEN RemovedTags(rowTags, oldTag)
                                         ELSE RenamedTags(rowTags, oldTag, newTag), t),
                   calls |-> acc.calls + 1,
                   updatedCount |-> IF UpdateTagsChanged(acc.ev, id)
                                    THEN acc.updatedCount + 1 ELSE acc.updatedCount,
                   threw |-> FALSE],
                  Tail(todo), remove, oldTag, newTag, t, failAt)

\* a transaction wrapper that commits whatever fn wrote before it threw
TransactionNoRollback(pre, body) ==
  [ok |-> ~body.threw, ev |-> body.ev, ret |-> IF body.threw THEN 0 ELSE body.updatedCount]

\* db.transaction(fn)(): commit what fn wrote, or roll all of it back when fn threw
Transaction(pre, body) ==
  IF body.threw THEN [ok |-> FALSE, ev |-> pre, ret |-> 0]
  ELSE [ok |-> TRUE, ev |-> body.ev, ret |-> body.updatedCount]

\* renameTag()
RenameTag(ev, oldTag, newTag, t, failAt) ==
  Transaction(ev,
    TagLoop(ev, [ev |-> ev, calls |-> 0, updatedCount |-> 0, threw |-> FALSE],
            DbSearch(ev, NULL, << oldTag >>, NULL, NULL, Undefined, Undefined),
            FALSE, oldTag, newTag, t, failAt))

\* removeTag()
RemoveTag(ev, tag, t, failAt) ==
  Transaction(ev,
    TagLoop(ev, [ev |-> ev, calls |-> 0, updatedCount |-> 0, threw |-> FALSE],
            DbSearch(ev, NULL, << tag >>, NULL, NULL, Undefined, Undefined),
            TRUE, tag, tag, t, failAt))

(***************************************************************************)
(* The tag store: the EvidenceDatabase API driven directly                 *)
(***************************************************************************)
Servers == {"s1", "s2"}     \* two FootprintServer instances opened on the one store
Callers == {"c1", "c2"}     \* tool calls that can be in flight together

\* tag strings the callers pass
TagA     == << "a" >>
TagB     == << "b" >>
TagUpper == << "A" >>
TagAny   == << "_" >>
TagAB    == << "a", "b" >>

\* tags column values a record is created with (capture-footprint joins its tokens with ',')
CreateTags == { NULL, TagA, TagAB, << "a", ",", "b" >>, << "A", ",", "b" >> }
\* tags arrays passed to addTags()
AddTagsArgs == { << >>, << << " " >> >>, << TagB >>, << << " ", "a" >>, TagB >> }
\* tags passed to renameTag(), removeTag() and search({tags})
OpTags == { TagA, TagB, TagAny }

NoLast == [op |-> "none", arg |-> << >>, t |-> 0, pre |-> << >>, ok |-> TRUE, ret |-> 0]

\* a row as the store specifications create it: the columns no tag operation reads are fixed
PlainRow(tags, t) ==
  [timestamp |-> t, conversationId |-> << "c" >>, encryptedContent |-> << >>,
   nonce |-> 0, contentHash |-> << >>, gitCommitHash |-> NULL, gitTimestamp |-> NULL,
   tags |-> tags]

\* a caller with no tool call in flight
IdleCall ==
  [pc |-> "idle", srv |-> "", op |-> "", content |-> << >>, id |-> 0, att |-> 0, key |-> 0,
   early |-> FALSE, cipher |-> << >>, nonce |-> 0, fp |-> << >>, ok |-> TRUE, ret |-> << >>]

\* the instances as constructed with the given passphrases: no key, no derivation, no call
ServerIdleWith(passwords) ==
  /\ password = passwords
  /\ crypto_keys = 0
  /\ derivedKey = [s \in Servers |-> 0]
  /\ keyDerivationPromise = [s \in Servers |-> 0]
  /\ dbOpen = [s \in Servers |-> TRUE]
  /\ closed = [s \in Servers |-> FALSE]
  /\ attempts = << >>
  /\ keyBytes = << >>
  /\ calls = [c \in Callers |-> IdleCall]
  /\ captured = << >>
  /\ exportFiles = << >>

\* both instances configured with the same passphrase
ServerIdle == ServerIdleWith([s \in Servers |-> << "p", "w" >>])

StoreInit ==
  /\ evidences = << >>
  /\ nextId = 0
  /\ now = 0
  /\ last = NoLast
  /\ ServerIdle

\* the handler that made the last call returns its response; calls are made one at a time
Return ==
  /\ last.op # "none"
  /\ last' = NoLast
  /\ UNCHANGED << evidences, nextId, now, crypto_keys, serverVars >>

Tick ==
  /\ last.op = "none"
  /\ now < MaxTime
  /\ now' = now + 1
  /\ last' = NoLast
  /\ UNCHANGED << evidences, nextId, crypto_keys, serverVars >>

\* create() of a record with one of the given tag lists
CreateOp(tagLists, maxIds) ==
  /\ last.op = "none"
  /\ nextId < maxIds
  /\ \E tags \in tagLists :
       evidences' = DbCreate(evidences, nextId + 1, PlainRow(tags, now), now)
  /\ nextId' = nextId + 1
  /\ last' = NoLast
  /\ UNCHANGED << now, crypto_keys, serverVars >>

\* renameTag(oldTag, newTag), whose updateTags() may throw at its failAt-th call
RenameTagOp(oldTags, newTags, maxFail) ==
  /\ last.op = "none"
  /\ \E oldTag \in oldTags, newTag \in newTags, failAt \in 0..maxFail :
       /\ oldTag # newTag
       /\ LET r == RenameTag(evidences, oldTag, newTag, now, failAt)
          IN  /\ evidences' = r.ev
              /\ last' = [op |-> "renameTag", arg |-> << oldTag, newTag, failAt >>, t |-> now,
                          pre |-> evidences, ok |-> r.ok, ret |-> r.ret]
  /\ UNCHANGED << nextId, now, crypto_keys, serverVars >>

\* removeTag(tag), whose updateTags() may throw at its failAt-th call
RemoveTagOp(tags, maxFail) ==
  /\ last.op = "none"
  /\ \E tag \in tags, failAt \in 0..maxFail :
       LET r == RemoveTag(evidences, tag, now, failAt)
       IN  /\ evidences' = r.ev
           /\ last' = [op |-> "removeTag", arg |-> << tag, tag, failAt >>, t |-> now,
                       pre |-> evidences, ok |-> r.ok, ret |-> r.ret]
  /\ UNCHANGED << nextId, now, crypto_keys, serverVars >>

StoreCreate == CreateOp(CreateTags, MaxIds)

StoreDelete ==
  /\ last.op = "none"
  /\ \E id \in DOMAIN evidences : evidences' = DbDelete(evidences, id)
  /\ last' = NoLast
  /\ UNCHANGED << nextId, now, crypto_keys, serverVars >>

StoreAddTags ==
  /\ last.op = "none"
  /\ \E id \in DOMAIN evidences, tags \in AddTagsArgs :
       LET r == AddTags(evidences, id, tags, now)
       IN  /\ evidences' = r.ev
           /\ last' = [op |-> "addTags", arg |-> << id, tags >>, t |-> now,
                       pre |-> evidences, ok |-> r.ok, ret |-> 0]
  /\ UNCHANGED << nextId, now, crypto_keys, serverVars >>

StoreRenameTag == RenameTagOp(OpTags, {TagA, TagB}, MaxIds)

StoreRemoveTag == RemoveTagOp(OpTags, MaxIds)

StoreSearch ==
  /\ last.op = "none"
  /\ \E tags \in { << t1 >> : t1 \in OpTags } \cup { << TagA, TagB >> } :
       last' = [op |-> "search", arg |-> tags, t |-> now, pre |-> evidences, ok |-> TRUE,
                ret |-> DbSearch(evidences, NULL, tags, NULL, NULL,
                                 Undefined, Undefined)]
  /\ UNCHANGED << evidences, nextId, now, crypto_keys, serverVars >>

StoreNext ==
  \/ Return
  \/ Tick
  \/ StoreCreate
  \/ StoreDelete
  \/ StoreAddTags
  \/ StoreRenameTag
  \/ StoreRemoveTag
  \/ StoreSearch

StoreSpec == StoreInit /\ [][StoreNext]_vars

(***************************************************************************)
(* The tag transactions on their own: renameTag() and removeTag() over     *)
(* records that share their tags, with updateTags() failing part-way       *)
(***************************************************************************)
TxnCreateTags == { TagA, << "a", ",", "b" >> }

TxnCreate == CreateOp(TxnCreateTags, MaxTxnIds)

TxnRenameTag == RenameTagOp({TagA, TagB}, {TagA, TagB}, MaxTxnIds)

TxnRemoveTag == RemoveTagOp({TagA, TagB}, MaxTxnIds)

TxnNext ==
  \/ Return
  \/ Tick
  \/ TxnCreate
  \/ TxnRenameTag
  \/ TxnRemoveTag

TxnSpec == StoreInit /\ [][TxnNext]_vars

(***************************************************************************)
(* Claims about the tag transactions                                       *)
(***************************************************************************)
TagOps == {"renameTag", "removeTag"}

\* the tokens of a comma-separated tag list
TokensOf(tags) == IF tags = NULL \/ tags = << >> THEN << >> ELSE Split(tags)

HasToken(tags, tok) == \E k \in 1..Len(TokensOf(tags)) : TokensOf(tags)[k] = tok

\* the records of the pre-state whose tag list contains the tag of the last call
LastMatching == {i \in DOMAIN last.pre : HasToken(last.pre[i].tags, last.arg[1])}

\* record i as the last renameTag()/removeTag() call rewrites it
LastRewritten(i) ==
  [last.pre[i] EXCEPT
     !.tags = IF last.op = "removeTag" THEN RemovedTags(last.pre[i].tags, last.arg[1])
              ELSE RenamedTags(last.pre[i].tags, last.arg[1], last.arg[2]),
     !.updatedAt = last.t]

\* C3: a renameTag()/removeTag() call that fails leaves every record as it was
\* before the call, and after any such call either every matching record has
\* been rewritten or none has.
C3_TagRewriteAtomic ==
  last.op \in TagOps =>
    /\ ~last.ok => evidences = last.pre
    /\ DOMAIN evidences = DOMAIN last.pre
    /\ \/ \A i \in LastMatching : evidences[i] = LastRewritten(i)
       \/ \A i \in DOMAIN last.pre : evidences[i] = last.pre[i]

\* a call that threw at its second updateTags(), after it had rewritten a first
\* matching record whose row the rewrite changes
C3_Witness ==
  /\ last.op \in TagOps
  /\ ~last.ok
  /\ last.arg[3] = 2
  /\ Cardinality(LastMatching) >= 2
  /\ \A i \in LastMatching : LastRewritten(i) # last.pre[i]

(***************************************************************************)
(* Claims about the tag store                                              *)
(***************************************************************************)
\* no token occurs twice in a tag list
NoDuplicateTokens(tags) ==
  \A k, l \in 1..Len(TokensOf(tags)) : k # l => TokensOf(tags)[k] # TokensOf(tags)[l]

\* the records the last call wrote to
LastTouched == {i \in DOMAIN evidences \cap DOMAIN last.pre : evidences[i] # last.pre[i]}

\* C6: after each addTags(), renameTag() or removeTag() call, every record the
\* call touched has a tag list in which no token occurs twice.
C6_TagsDeduplicated ==
  (last.op \in {"addTags", "renameTag", "removeTag"} /\ last.ok) =>
    \A i \in LastTouched : NoDuplicateTokens(evidences[i].tags)

\* C7: a successful renameTag(oldTag, newTag) replaces oldTag by newTag in every
\* record that contained it and keeps the other tokens and their order, leaves
\* no record with oldTag, leaves every other record's tags and updatedAt alone,
\* and returns the number of records that contained oldTag.
C7_RenameTagExact ==
  (last.op = "renameTag" /\ last.ok) =>
    LET oldTag == last.arg[1]
        newTag == last.arg[2]
    IN  /\ DOMAIN evidences = DOMAIN last.pre
        /\ \A i \in DOMAIN last.pre :
             LET before == TokensOf(last.pre[i].tags)
             IN  IF HasToken(last.pre[i].tags, oldTag)
                 THEN /\ TokensOf(evidences[i].tags) =
                           [k \in 1..Len(before) |-> IF before[k] = oldTag THEN newTag ELSE before[k]]
                      /\ ~HasToken(evidences[i].tags, oldTag)
                 ELSE /\ evidences[i].tags = last.pre[i].tags
                      /\ evidences[i].updatedAt = last.pre[i].updatedAt
        /\ last.ret = Cardinality(LastMatching)

\* C8: a successful removeTag(tag) removes exactly that token from every record
\* that contained it (tags null when it was the only one), keeps the other
\* tokens and their order, leaves every other record alone, and returns the
\* number of records that contained tag.
C8_RemoveTagExact ==
  (last.op = "removeTag" /\ last.ok) =>
    LET tag == last.arg[1]
    IN  /\ DOMAIN evidences = DOMAIN last.pre
        /\ \A i \in DOMAIN last.pre :
             LET before == TokensOf(last.pre[i].tags)
             IN  IF HasToken(last.pre[i].tags, tag)
                 THEN /\ TokensOf(evidences[i].tags) = FilterNot(before, tag)
                      /\ FilterNot(before, tag) = << >> => evidences[i].tags = NULL
                 ELSE evidences[i] = last.pre[i]
        /\ last.ret = Cardinality(LastMatching)

\* C9: search({tags}) returns exactly the records whose tag list contains every
\* one of the tags as a whole token.
C9_TagSearchExact ==
  last.op = "search" =>
    /\ {last.ret[k] : k \in 1..Len(last.ret)} =
         {i \in DOMAIN last.pre :
            \A k \in 1..Len(last.arg) : HasToken(last.pre[i].tags, last.arg[k])}
    /\ \A k, l \in 1..Len(last.ret) : k # l => last.ret[k] # last.ret[l]

(***************************************************************************)
(* Pagination: list() over a store whose records may share a timestamp     *)
(***************************************************************************)
ListCreate == CreateOp({NULL}, MaxListIds)

ListArgs == {Undefined} \cup 0..MaxLimit

StoreList ==
  /\ last.op = "none"
  /\ \E limit \in ListArgs \ {0}, offset \in ListArgs :
       last' = [op |-> "list", arg |-> << limit, offset >>, t |-> now, pre |-> evidences,
                ok |-> TRUE, ret |-> DbList(evidences, limit, offset)]
  /\ UNCHANGED << evidences, nextId, now, crypto_keys, serverVars >>

ListNext ==
  \/ Return
  \/ Tick
  \/ ListCreate
  \/ StoreDelete
  \/ StoreList

ListSpec == StoreInit /\ [][ListNext]_vars

\* elements o+1 .. o+l of a sequence, as far as they exist
SliceOf(all, o, l) ==
  [k \in 1..Max(0, Min(l, Len(all) - o)) |-> all[o + k]]

\* C10: list() returns every stored record exactly once in non-increasing
\* timestamp order; list({limit: L, offset: O}) is the slice [O, O+L) of list(),
\* and list({offset: O}) is list() without its first O records.
C10_PaginationConsistent ==
  last.op = "list" =>
    LET all    == DbList(last.pre, Undefined, Undefined)
        limit  == last.arg[1]
        offset == IF last.arg[2] = Undefined THEN 0 ELSE last.arg[2]
    IN  /\ Len(all) = Cardinality(DOMAIN last.pre)
        /\ {all[k] : k \in 1..Len(all)} = DOMAIN last.pre
        /\ \A k \in 1..(Len(all) - 1) :
             last.pre[all[k]].timestamp >= last.pre[all[k + 1]].timestamp
        /\ last.ret = SliceOf(all, offset, IF limit = Undefined THEN Len(all) ELSE limit)

\* the second page of two over four records, two of which share a timestamp
C10_Witness ==
  /\ last.op = "list"
  /\ last.arg = << 2, 2 >>
  /\ Cardinality(DOMAIN last.pre) = 4
  /\ \E i, j \in DOMAIN last.pre : i # j /\ last.pre[i].timestamp = last.pre[j].timestamp
  /\ \E i, j \in DOMAIN last.pre : last.pre[i].timestamp # last.pre[j].timestamp
  /\ Len(last.ret) = 2

(***************************************************************************)
(* Crypto (src/lib/crypto): text encoding, XChaCha20-Poly1305, Argon2id    *)
(*                                                                         *)
(* A content string is a sequence of UTF-16 code units: "x" and " " are    *)
(* BMP characters, "BOM" is U+FEFF, "HS" and "LS" are a high and a low     *)
(* surrogate.  The encoded form is the sequence of Unicode scalar values   *)
(* whose UTF-8 bytes TextEncoder writes.                                   *)
(***************************************************************************)
\* new TextEncoder().encode(s): a surrogate pair is one scalar value, a lone surrogate
\* is replaced by U+FFFD
RECURSIVE TextEncode(_)
TextEncode(s) ==
  IF s = << >> THEN << >>
  ELSE IF Len(s) >= 2 /\ s[1] = "HS" /\ s[2] = "LS"
       THEN << "U+10000" >> \o TextEncode(SubSeq(s, 3, Len(s)))
  ELSE IF s[1] \in {"HS", "LS"} THEN << "U+FFFD" >> \o TextEncode(Tail(s))
  ELSE << s[1] >> \o TextEncode(Tail(s))

\* the code units of the decoded scalar values
RECURSIVE DecodeUnits(_)
DecodeUnits(b) ==
  IF b = << >> THEN << >>
  ELSE (IF b[1] = "U+10000" THEN << "HS", "LS" >> ELSE << b[1] >>) \o DecodeUnits(Tail(b))

\* new TextDecoder().decode(bytes): ignoreBOM is false, a leading U+FEFF is dropped
TextDecode(b) ==
  DecodeUnits(IF b # << >> /\ b[1] = "BOM" THEN Tail(b) ELSE b)

\* a key derivation that accepts the empty password
PasswordAny(pw) == TRUE

\* deriveKey()/rederiveKey() throw unless: password && password.length > 0
PasswordGiven(pw) == Len(pw) > 0

\* argon2id(password, salt): a key is determined by, and determines, its inputs
Argon2id(pw, salt) == [pw |-> pw, salt |-> salt]
\* the bytes of a key object after fill(0)
ZeroKey == [pw |-> << >>, salt |-> 0]
\* the slot of an attempt that created no key object
NoKey   == [pw |-> << >>, salt |-> -1]

\* encrypt(plaintext, key) under the nonce randomBytes(24) returned
Encrypt(plaintext, key, nonce) ==
  [ciphertext |-> [k |-> key, n |-> nonce, b |-> TextEncode(plaintext)], nonce |-> nonce]

\* xchacha20poly1305(key, nonce).decrypt(ciphertext): fewer bytes than a tag are rejected
\* for their length; otherwise the Poly1305 tag verifies only under the key and nonce
\* the ciphertext was made with
CipherDecrypt(ciphertext, nonce, key) ==
  IF DOMAIN ciphertext = {} THEN [ok |-> FALSE, bytes |-> << >>, error |-> "invalid length"]
  ELSE IF ciphertext.k = key /\ ciphertext.n = nonce
  THEN [ok |-> TRUE, bytes |-> ciphertext.b, error |-> ""]
  ELSE [ok |-> FALSE, bytes |-> << >>, error |-> "invalid tag"]

\* the message every failed decryption is reported with
DecryptionFailed == "Decryption failed: invalid key or tampered data"

\* a decrypt() that rethrows the error of the cipher
DecryptRethrowing(ciphertext, nonce, key) ==
  LET r == CipherDecrypt(ciphertext, nonce, key)
  IN  [ok |-> r.ok, plaintext |-> TextDecode(r.bytes), error |-> r.error]

\* decrypt(ciphertext, nonce, key) with a 32-byte key and a 24-byte nonce: the decoded
\* plaintext, or the one generic error in place of whatever the cipher threw
Decrypt(ciphertext, nonce, key) ==
  LET r == CipherDecrypt(ciphertext, nonce, key)
  IN  IF r.ok THEN [ok |-> TRUE, plaintext |-> TextDecode(r.bytes), error |-> ""]
      ELSE [ok |-> FALSE, plaintext |-> << >>, error |-> DecryptionFailed]

\* createHash("sha256").update(content): the digest of the UTF-8 bytes of content
Sha256(content) == TextEncode(content)

(***************************************************************************)
(* Salt storage (src/lib/storage/salt.ts)                                  *)
(***************************************************************************)
\* retrieveSalt(): the stored salt, 0 for null
RetrieveSalt(cur) == cur

\* a storeSalt that replaces the row instead of checking for it
StoreSaltReplace(open, cur, salt) ==
  IF ~open THEN [ok |-> FALSE, salt |-> cur]
  ELSE [ok |-> TRUE, salt |-> salt]

\* a storeSalt that keeps the row it finds and reports success
StoreSaltIgnore(open, cur, salt) ==
  IF ~open THEN [ok |-> FALSE, salt |-> cur]
  ELSE IF cur # 0 THEN [ok |-> TRUE, salt |-> cur]
  ELSE [ok |-> TRUE, salt |-> salt]

\* storeSalt(): throws on a closed connection and when row id = 1 exists
StoreSalt(open, cur, salt) ==
  IF ~open THEN [ok |-> FALSE, salt |-> cur]
  ELSE IF cur # 0 THEN [ok |-> FALSE, salt |-> cur]
  ELSE [ok |-> TRUE, salt |-> salt]

(***************************************************************************)
(* FootprintServer.getDerivedKey (src/index.ts)                            *)
(***************************************************************************)
\* no finished call is waiting for its response to be delivered
NoResponse == \A c \in Callers : calls[c].pc # "done"

\* no derivation attempt of the instance has completed yet
EarlyFor(s) ==
  \A a \in DOMAIN attempts : attempts[a].srv = s => attempts[a].status = "pending"

\* a getDerivedKey that does not look at keyDerivationPromise
JoinInFlightNever(s) == FALSE

\* if (this.keyDerivationPromise) return this.keyDerivationPromise
JoinInFlight(s) == keyDerivationPromise[s] # 0

\* the async IIFE up to its first await.  retrieveSalt() on a closed connection throws
\* before any await: finally clears the field, and then the assignment stores the
\* rejected promise in it.  Otherwise deriveKey()/rederiveKey() run Argon2id at once
\* (or throw on an empty password) and the IIFE waits for their promise.
StartDerivation(s) ==
  LET a            == Len(attempts) + 1
      existingSalt == RetrieveSalt(crypto_keys)
      salt         == IF existingSalt # 0 THEN existingSalt ELSE a
      att          ==
        IF ~dbOpen[s]
        THEN [srv |-> s, status |-> "rejected", salt |-> 0, fresh |-> FALSE,
              early |-> EarlyFor(s)]
        ELSE [srv |-> s, status |-> "pending", salt |-> salt, fresh |-> existingSalt = 0,
              early |-> EarlyFor(s)]
  IN  [att |-> a, key |-> 0,
       attempts |-> Append(attempts, att),
       keyBytes |-> Append(keyBytes, IF dbOpen[s] /\ PasswordGiven(password[s])
                                     THEN Argon2id(password[s], salt) ELSE NoKey),
       promise |-> [keyDerivationPromise EXCEPT ![s] = a]]

\* a getDerivedKey without the fast path
GetDerivedKeyUncached(s) ==
  IF JoinInFlight(s)
  THEN [att |-> keyDerivationPromise[s], key |-> 0, attempts |-> attempts,
        keyBytes |-> keyBytes, promise |-> keyDerivationPromise]
  ELSE StartDerivation(s)

\* getDerivedKey() up to the promise it returns: the cached key object, the attempt in
\* flight, or a new attempt
GetDerivedKey(s) ==
  IF derivedKey[s] # 0
  THEN [att |-> 0, key |-> derivedKey[s], attempts |-> attempts, keyBytes |-> keyBytes,
        promise |-> keyDerivationPromise]
  ELSE IF JoinInFlight(s)
  THEN [att |-> keyDerivationPromise[s], key |-> 0, attempts |-> attempts,
        keyBytes |-> keyBytes, promise |-> keyDerivationPromise]
  ELSE StartDerivation(s)

\* the IIFE after its await: storeSalt() for a fresh salt, the cache assignment, finally
DerivationResume(a) ==
  /\ NoResponse
  /\ a \in DOMAIN attempts
  /\ attempts[a].status = "pending"
  /\ LET s      == attempts[a].srv
         kdfOk  == keyBytes[a] # NoKey
         stored == IF kdfOk /\ attempts[a].fresh
                   THEN StoreSalt(dbOpen[s], crypto_keys, attempts[a].salt)
                   ELSE [ok |-> TRUE, salt |-> crypto_keys]
         ok     == kdfOk /\ stored.ok
     IN  /\ crypto_keys' = stored.salt
         /\ derivedKey' = IF ok THEN [derivedKey EXCEPT ![s] = a] ELSE derivedKey
         /\ attempts' = [attempts EXCEPT ![a].status = IF ok THEN "resolved" ELSE "rejected"]
         /\ keyDerivationPromise' = [keyDerivationPromise EXCEPT ![s] = 0]
  /\ UNCHANGED << evidences, nextId, now, password, dbOpen, closed, keyBytes, calls,
                  captured, last,
                  exportFiles >>

\* clearDerivedKey() and close()
Close(s) ==
  /\ NoResponse
  /\ keyBytes' = IF derivedKey[s] # 0
                 THEN [keyBytes EXCEPT ![derivedKey[s]] = ZeroKey] ELSE keyBytes
  /\ derivedKey' = [derivedKey EXCEPT ![s] = 0]
  /\ dbOpen' = [dbOpen EXCEPT ![s] = FALSE]
  /\ closed' = [closed EXCEPT ![s] = TRUE]
  /\ UNCHANGED << evidences, crypto_keys, nextId, now, password, keyDerivationPromise,
                  attempts, calls, captured, last,
                  exportFiles >>

(***************************************************************************)
(* The tool handlers capture-footprint and get-footprint, and the server   *)
(* specification: two FootprintServer instances on one store, each with    *)
(* tool calls in flight, a derivation in flight, and close()               *)
(***************************************************************************)
\* contents passed to capture-footprint
Contents == { << "x" >>, << " " >>, << "BOM", "x" >>, << "HS", "LS" >>, << "HS" >> }
\* nonces randomBytes(24) may return
Nonces == {1, 2}
\* a getCurrentCommit() that may also resolve to a commit without its timestamp
GitResultsPartial == { [commitHash |-> NULL, timestamp |-> NULL],
                       [commitHash |-> << "g" >>, timestamp |-> << "t" >>],
                       [commitHash |-> << "g" >>, timestamp |-> NULL] }

\* what getCurrentCommit() may resolve to: null, or the head commit
GitResults == { [commitHash |-> NULL, timestamp |-> NULL],
                [commitHash |-> << "g" >>, timestamp |-> << "t" >>] }

\* a handler that threw: wrapToolHandler rethrows the error and the call ends
Failed(call) ==
  [IdleCall EXCEPT !.pc = "done", !.srv = call.srv, !.op = call.op, !.id = call.id,
                   !.att = call.att, !.early = call.early, !.ok = FALSE]

\* captures issued and not yet failed
CapturesIssued ==
  nextId + Cardinality({c \in Callers : calls[c].op = "capture" /\ calls[c].pc # "done"})

\* the handler calls getDerivedKey() and waits for its promise
AwaitKey(c, s, op, content, id, row) ==
  LET G == GetDerivedKey(s)
  IN  /\ Len(G.attempts) <= MaxAttempts
      /\ attempts' = G.attempts
      /\ keyBytes' = G.keyBytes
      /\ keyDerivationPromise' = G.promise
      /\ calls' = [calls EXCEPT ![c] =
                     [IdleCall EXCEPT !.pc = "awaitKey", !.srv = s, !.op = op,
                                      !.content = content, !.id = id, !.att = G.att,
                                      !.key = G.key, !.cipher = row.encryptedContent,
                                      !.nonce = row.nonce, !.fp = row,
                                      !.early = (derivedKey[s] = 0 /\ EarlyFor(s))]]

\* /[\x00\n\r,]/.test(s)
HasForbidden(str) == \E k \in 1..Len(str) : str[k] \in {"NUL", "NL", "CR", ","}

\* the validation of capture-footprint, in its order, and the tags it leaves in params
CaptureValidation(content, messageCount, conversationId, tags) ==
  LET tokens == FilterNonEmpty(MapTrim(Split(tags)))
  IN  IF Len(content) = 0 \/ Len(Trim(content)) = 0 THEN [ok |-> FALSE, tags |-> NULL]
      ELSE IF messageCount <= 0 THEN [ok |-> FALSE, tags |-> NULL]
      ELSE IF HasForbidden(conversationId) THEN [ok |-> FALSE, tags |-> NULL]
      ELSE IF ~Truthy(tags) THEN [ok |-> TRUE, tags |-> NULL]
      ELSE IF Len(tokens) = 0 THEN [ok |-> FALSE, tags |-> NULL]
      ELSE IF \E k \in 1..Len(tokens) : HasForbidden(tokens[k])
      THEN [ok |-> FALSE, tags |-> NULL]
      ELSE [ok |-> TRUE, tags |-> Join(tokens)]

\* capture-footprint up to "await getDerivedKey()": validation, then the key request
CaptureCall(c, contents) ==
  /\ NoResponse
  /\ calls[c].pc = "idle"
  /\ \E s \in Servers, content \in contents :
       IF ~CaptureValidation(content, 1, << "c" >>, NULL).ok
       THEN /\ calls' = [calls EXCEPT ![c] =
                           Failed([IdleCall EXCEPT !.srv = s, !.op = "capture"])]
            /\ UNCHANGED << attempts, keyBytes, keyDerivationPromise >>
       ELSE /\ CapturesIssued < MaxCaptures
            /\ AwaitKey(c, s, "capture", content, 0,
                        [encryptedContent |-> << >>, nonce |-> 0,
                         conversationId |-> << "c" >>, tags |-> NULL])
  /\ UNCHANGED << evidences, crypto_keys, nextId, now, password, derivedKey, dbOpen,
                  closed, captured, last,
                  exportFiles >>

\* a handler that reads one record, up to "await getDerivedKey()": findById, then the
\* key request
FindThenAwaitKey(c, op) ==
  /\ NoResponse
  /\ calls[c].pc = "idle"
  /\ \E s \in Servers, id \in 1..MaxCaptures :
       IF ~dbOpen[s] \/ FindById(evidences, id) = 0
       THEN /\ calls' = [calls EXCEPT ![c] =
                           Failed([IdleCall EXCEPT !.srv = s, !.op = op, !.id = id])]
            /\ UNCHANGED << attempts, keyBytes, keyDerivationPromise >>
       ELSE AwaitKey(c, s, op, << >>, id, evidences[id])
  /\ UNCHANGED << evidences, crypto_keys, nextId, now, password, derivedKey, dbOpen,
                  closed, captured, last,
                  exportFiles >>

\* get-footprint
GetCall(c) == FindThenAwaitKey(c, "get")

\* verify-footprint
VerifyCall(c) == FindThenAwaitKey(c, "verify")

\* the resource footprint://{id}
ResourceCall(c) == FindThenAwaitKey(c, "resource")

\* a verdict that leaves the provenance check out
VerifiedWithoutGit(checks) ==
  checks.contentIntegrity.passed /\ checks.encryptionStatus.passed

\* verified = contentIntegrity.passed && gitTimestamp.passed && encryptionStatus.passed
Verified(checks) ==
  /\ checks.contentIntegrity.passed
  /\ checks.gitTimestamp.passed
  /\ checks.encryptionStatus.passed

\* a verification that lets the error of decrypt() escape
VerifyChecksThrowing(fp, key) ==
  LET d == Decrypt(fp.encryptedContent, fp.nonce, key)
  IN  [threw |-> ~d.ok, decrypts |-> 1,
       contentIntegrity |-> [passed |-> d.ok /\ Sha256(d.plaintext) = fp.contentHash,
                             hash |-> Sha256(d.plaintext)],
       gitTimestamp |-> [passed |-> Truthy(fp.gitCommitHash) /\ Truthy(fp.gitTimestamp),
                         commitHash |-> fp.gitCommitHash, timestamp |-> fp.gitTimestamp],
       encryptionStatus |-> [passed |-> d.ok]]

\* the checks of verify-footprint: one decrypt() inside try/catch, the hash of the
\* decrypted content against contentHash, the presence of the Git pair
VerifyChecks(fp, key) ==
  LET d            == Decrypt(fp.encryptedContent, fp.nonce, key)
      computedHash == Sha256(d.plaintext)
  IN  [threw |-> FALSE, decrypts |-> 1,
       contentIntegrity |-> IF d.ok
                            THEN [passed |-> computedHash = fp.contentHash,
                                  hash |-> computedHash]
                            ELSE [passed |-> FALSE, hash |-> << >>],
       gitTimestamp |-> [passed |-> Truthy(fp.gitCommitHash) /\ Truthy(fp.gitTimestamp),
                         commitHash |-> fp.gitCommitHash, timestamp |-> fp.gitTimestamp],
       encryptionStatus |-> [passed |-> d.ok]]

\* what verify-footprint responds with
VerifyResponse(fp, key) ==
  LET checks == VerifyChecks(fp, key)
  IN  [verified |-> Verified(checks), checks |-> checks, legalReadiness |-> Verified(checks)]

\* the handler resumes with the outcome of getDerivedKey(): capture-footprint encrypts
\* and goes on to getCurrentCommit(); get-footprint and the resource decrypt and
\* respond; verify-footprint runs its checks and responds
CallerResume(c, nonces) ==
  /\ NoResponse
  /\ calls[c].pc = "awaitKey"
  /\ calls[c].att # 0 => attempts[calls[c].att].status # "pending"
  /\ LET call == calls[c]
         key  == IF call.att = 0 THEN call.key ELSE call.att
     IN  IF call.att # 0 /\ attempts[call.att].status = "rejected"
         THEN calls' = [calls EXCEPT ![c] = Failed(call)]
         ELSE IF call.op = "capture"
         THEN \E n \in nonces :
                LET e == Encrypt(call.content, keyBytes[key], n)
                IN  calls' = [calls EXCEPT ![c] =
                                [call EXCEPT !.pc = "awaitGit", !.key = key,
                                             !.cipher = e.ciphertext, !.nonce = e.nonce]]
         ELSE IF call.op = "verify"
         THEN LET v == VerifyResponse(call.fp, keyBytes[key])
              IN  calls' = [calls EXCEPT ![c] =
                              IF v.checks.threw
                              THEN [Failed(call) EXCEPT !.key = key, !.fp = call.fp]
                              ELSE [Failed(call) EXCEPT !.key = key, !.fp = call.fp,
                                                        !.ok = TRUE, !.ret = v]]
         ELSE LET d == Decrypt(call.cipher, call.nonce, keyBytes[key])
              IN  calls' = [calls EXCEPT ![c] =
                              IF d.ok
                              THEN [Failed(call) EXCEPT !.key = key, !.ok = TRUE,
                                                        !.ret = d.plaintext]
                              ELSE [Failed(call) EXCEPT !.key = key]]
  /\ UNCHANGED << evidences, crypto_keys, nextId, now, password, derivedKey,
                  keyDerivationPromise, dbOpen, closed, attempts, keyBytes, captured, last,
                  exportFiles >>

\* capture-footprint after "await getCurrentCommit()": hash, timestamp, db.create()
CaptureFinish(c, gitResults) ==
  /\ NoResponse
  /\ calls[c].pc = "awaitGit"
  /\ LET call == calls[c]
     IN  IF ~dbOpen[call.srv]
         THEN /\ calls' = [calls EXCEPT ![c] = [Failed(call) EXCEPT !.key = call.key]]
              /\ UNCHANGED << evidences, nextId, captured >>
         ELSE \E gitInfo \in gitResults :
                LET id == nextId + 1
                IN  /\ evidences' =
                         DbCreate(evidences, id,
                                  [timestamp        |-> now,
                                   conversationId   |-> call.fp.conversationId,
                                   encryptedContent |-> call.cipher,
                                   nonce            |-> call.nonce,
                                   contentHash      |-> Sha256(call.content),
                                   gitCommitHash    |-> gitInfo.commitHash,
                                   gitTimestamp     |-> gitInfo.timestamp,
                                   tags             |-> call.fp.tags], now)
                    /\ nextId' = id
                    /\ captured' = [i \in DOMAIN captured \cup {id} |->
                                      IF i = id THEN call.content ELSE captured[i]]
                    /\ calls' = [calls EXCEPT ![c] =
                                   [Failed(call) EXCEPT !.key = call.key, !.id = id,
                                                        !.ok = TRUE]]
  /\ UNCHANGED << crypto_keys, now, password, derivedKey, keyDerivationPromise, dbOpen,
                  closed, attempts, keyBytes, last,
                  exportFiles >>

\* the response of a finished call is delivered
CallReturn(c) ==
  /\ calls[c].pc = "done"
  /\ calls' = [calls EXCEPT ![c] = IdleCall]
  /\ UNCHANGED << evidences, crypto_keys, nextId, now, password, derivedKey,
                  keyDerivationPromise, dbOpen, closed, attempts, keyBytes, captured, last,
                  exportFiles >>

\* delete-footprints and manage-tags on an open instance, between the other calls
ServerDelete ==
  /\ NoResponse
  /\ \E s \in Servers : dbOpen[s]
  /\ \E id \in DOMAIN evidences : evidences' = DbDelete(evidences, id)
  /\ UNCHANGED << crypto_keys, nextId, now, serverVars, last >>

ServerAddTags ==
  /\ NoResponse
  /\ \E s \in Servers : dbOpen[s]
  /\ \E id \in DOMAIN evidences : evidences' = AddTags(evidences, id, << TagB >>, now).ev
  /\ UNCHANGED << crypto_keys, nextId, now, serverVars, last >>

(***************************************************************************)
(* The key cache: both instances, two callers, one content                 *)
(***************************************************************************)
KeyNext ==
  \/ \E c \in Callers : CaptureCall(c, {<< "x" >>})
  \/ \E c \in Callers : GetCall(c)
  \/ \E c \in Callers : CallerResume(c, {1})
  \/ \E c \in Callers : CaptureFinish(c, {[commitHash |-> NULL, timestamp |-> NULL]})
  \/ \E c \in Callers : CallReturn(c)
  \/ \E a \in 1..MaxAttempts : DerivationResume(a)
  \/ \E s \in Servers : Close(s)

KeySpec == StoreInit /\ [][KeyNext]_vars

(***************************************************************************)
(* The round trip: one caller at a time, every content, on an instance     *)
(* and on the instance that replaces it after a restart                    *)
(***************************************************************************)
RoundTripNext ==
  \/ CaptureCall("c1", Contents)
  \/ GetCall("c1")
  \/ CallerResume("c1", Nonces)
  \/ CaptureFinish("c1", GitResults)
  \/ CallReturn("c1")
  \/ \E a \in 1..MaxAttempts : DerivationResume(a)
  \/ \E s \in Servers : Close(s)
  \/ ServerDelete
  \/ ServerAddTags

RoundTripSpec == StoreInit /\ [][RoundTripNext]_vars

(***************************************************************************)
(* Claims about the key cache                                              *)
(***************************************************************************)
\* the calls of instance s that asked for the key before its first derivation completed
EarlyCalls(s) ==
  {c \in Callers : calls[c].pc # "idle" /\ calls[c].srv = s /\ calls[c].early}

\* the calls that have received a key object from getDerivedKey()
HoldsKey(c) == calls[c].pc \in {"awaitGit", "done"} /\ calls[c].key # 0

\* C1: for the getDerivedKey calls an instance receives before its first derivation
\* has completed, exactly one derivation is started, every such call waits on that
\* one derivation, and the calls that have received a key hold the same key object.
C1_DerivationCoalesced ==
  \A s \in Servers :
    /\ Cardinality({a \in DOMAIN attempts : attempts[a].srv = s /\ attempts[a].early}) <= 1
    /\ \A c \in EarlyCalls(s) :
         /\ calls[c].att \in DOMAIN attempts
         /\ attempts[calls[c].att].srv = s
         /\ attempts[calls[c].att].early
    /\ \A c1, c2 \in EarlyCalls(s) :
         /\ calls[c1].att = calls[c2].att
         /\ (HoldsKey(c1) /\ HoldsKey(c2)) => calls[c1].key = calls[c2].key

\* two calls joined one derivation in flight and both hold its key
C1_Witness ==
  \E s \in Servers :
    /\ EarlyCalls(s) = Callers
    /\ \A c \in Callers : HoldsKey(c)
    /\ Cardinality({a \in DOMAIN attempts : attempts[a].srv = s}) = 1

\* C2: once close() has run on an instance, the instance holds no derived key: the
\* cache is null and every key object derived for the instance is zeroed, whether
\* the getDerivedKey calls had completed or were still in flight when close() ran.
C2_ZeroOnShutdown ==
  \A s \in Servers :
    closed[s] =>
      /\ derivedKey[s] = 0
      /\ \A a \in DOMAIN attempts :
           (attempts[a].srv = s /\ attempts[a].status = "resolved") => keyBytes[a] = ZeroKey

\* C5: the salt row is written at most once; once present it is never changed or
\* deleted, across derivation attempts that fail or run together on two instances
\* and across an instance replacing a closed one.
C5_SaltWriteOnce ==
  [][crypto_keys # 0 => crypto_keys' = crypto_keys]_vars

\* a derivation that generated its own salt found the row already written by the
\* other instance when it came to store it, and was rejected
C5_Witness ==
  \E a \in DOMAIN attempts :
    /\ attempts[a].fresh
    /\ attempts[a].status = "rejected"
    /\ dbOpen[attempts[a].srv]
    /\ crypto_keys # 0
    /\ crypto_keys # attempts[a].salt

(***************************************************************************)
(* Claims about the round trip                                             *)
(***************************************************************************)
\* C4: get-footprint on the id a capture returned yields exactly the captured
\* content, after other captures, tag changes, deletions of other records, and on
\* the instance that replaces a closed one.
C4_RoundTrip ==
  \A c \in Callers :
    (calls[c].pc = "done" /\ calls[c].op = "get" /\ calls[c].ok) =>
      calls[c].ret = captured[calls[c].id]

(***************************************************************************)
(* Export (src/lib/storage/index.ts, src/tools/export-footprints.ts)       *)
(***************************************************************************)
\* a path inside the archive: a file in the folder footprints/<id>, or a root file (fp = 0)
ZipPath(id, name) == [fp |-> id, name |-> name]

\* zip.file(path, data): adds the entry, or replaces the entry of the same path
ZipFile(zip, path, data) ==
  [q \in DOMAIN zip \cup {path} |-> IF q = path THEN data ELSE zip[q]]

\* createHash('sha256').update(data).digest('hex')
Sha256Hex(data) == [sha256 |-> data]

\* a validation that stops at the first id it does not find
NotFoundFirst(ev, ids) ==
  LET miss == {k \in 1..Len(ids) : FindById(ev, ids[k]) = 0}
  IN  IF miss = {} THEN << >>
      ELSE << ids[CHOOSE k \in miss : \A j \in miss : k <= j] >>

\* ids.filter(id => !db.findById(id))
RECURSIVE NotFound(_, _)
NotFound(ev, ids) ==
  IF ids = << >> THEN << >>
  ELSE (IF FindById(ev, Head(ids)) = 0 THEN << Head(ids) >> ELSE << >>)
       \o NotFound(ev, Tail(ids))

\* the loop over the footprints: encrypted-data, metadata.json and, when asked for and
\* present, git-info.json go into the archive, each with a checksum entry
RECURSIVE ExportLoop(_, _, _, _, _)
ExportLoop(ev, footprints, includeGitInfo, zip, entries) ==
  IF footprints = << >> THEN [zip |-> zip, checksumEntries |-> entries]
  ELSE
    LET id       == Head(footprints)
        fp       == ev[id]
        metadata == [id |-> id, timestamp |-> fp.timestamp,
                     conversationId |-> fp.conversationId, contentHash |-> fp.contentHash,
                     tags |-> fp.tags, nonce |-> fp.nonce]
        gitInfo  == [gitCommitHash |-> fp.gitCommitHash, gitTimestamp |-> fp.gitTimestamp]
        withGit  == includeGitInfo /\ Truthy(fp.gitCommitHash) /\ Truthy(fp.gitTimestamp)
        zip1     == ZipFile(ZipFile(zip, ZipPath(id, "encrypted-data"), fp.encryptedContent),
                            ZipPath(id, "metadata.json"), metadata)
        zip2     == IF withGit THEN ZipFile(zip1, ZipPath(id, "git-info.json"), gitInfo)
                    ELSE zip1
        e1       == entries \o
                    << [hash |-> Sha256Hex(fp.encryptedContent),
                        path |-> ZipPath(id, "encrypted-data")],
                       [hash |-> Sha256Hex(metadata), path |-> ZipPath(id, "metadata.json")] >>
        e2       == IF withGit
                    THEN Append(e1, [hash |-> Sha256Hex(gitInfo),
                                     path |-> ZipPath(id, "git-info.json")])
                    ELSE e1
    IN  ExportLoop(ev, Tail(footprints), includeGitInfo, zip2, e2)

\* the footprints exportEvidences() takes: "if (ids)" holds for every array, the empty
\* one included; only an omitted ids falls through to db.list()
ExportFootprints(ev, hasIds, ids) ==
  IF hasIds THEN ids ELSE DbList(ev, Undefined, Undefined)

\* MAX_EXPORT_SIZE_MB, and the bytes of a megabyte (1024 * 1024)
MAX_EXPORT_SIZE_MB == 100
MiB == 1048576

\* the bytes Poly1305 appends to a ciphertext
TagLength == 16

\* encryptedContent.length: an opaque blob carries its length, a ciphertext is its
\* plaintext bytes and the tag, an empty array has none
ByteLength(encryptedContent) ==
  IF DOMAIN encryptedContent = {} THEN 0
  ELSE IF DOMAIN encryptedContent = {"bytes"} THEN encryptedContent.bytes
  ELSE Len(encryptedContent.b) + TagLength

\* footprints.reduce((sum, e) => sum + e.encryptedContent.length, 0)
RECURSIVE EncryptedBytes(_, _)
EncryptedBytes(ev, footprints) ==
  IF footprints = << >> THEN 0
  ELSE ByteLength(ev[Head(footprints)].encryptedContent) + EncryptedBytes(ev, Tail(footprints))

\* a size test that drops the fraction of the megabytes
ExceedsLimitTruncating(bytes) == bytes \div MiB > MAX_EXPORT_SIZE_MB

\* estimatedSizeMB > MAX_EXPORT_SIZE_MB, where estimatedSizeMB = bytes / (1024 * 1024):
\* the division by a power of two is exact, so the test is one on the bytes
ExceedsLimit(bytes) == bytes > MAX_EXPORT_SIZE_MB * MiB

\* exportEvidences(db, {ids, includeGitInfo}) at time t
ExportEvidences(ev, hasIds, ids, includeGitInfo, t) ==
  LET notFound   == IF hasIds THEN NotFound(ev, ids) ELSE << >>
      footprints == ExportFootprints(ev, hasIds, ids)
      manifest   == [version |-> "1.0.0", exportDate |-> t,
                     footprintCount |-> Len(footprints), includeGitInfo |-> includeGitInfo]
      zip0       == ZipFile(<< >>, ZipPath(0, "manifest.json"), manifest)
      L          == ExportLoop(ev, footprints, includeGitInfo, zip0, << >>)
      zipData    == ZipFile(L.zip, ZipPath(0, "checksum.txt"), L.checksumEntries)
  IN  IF Len(notFound) > 0
      THEN [ok |-> FALSE, notFound |-> notFound, filename |-> << >>, zipData |-> << >>,
            footprintCount |-> 0]
      ELSE IF ExceedsLimit(EncryptedBytes(ev, footprints))
      THEN [ok |-> FALSE, notFound |-> << >>, filename |-> << >>, zipData |-> << >>,
            footprintCount |-> 0]
      ELSE [ok |-> TRUE, notFound |-> << >>, filename |-> << "footprint-export", t >>,
            zipData |-> zipData, footprintCount |-> Len(footprints)]

\* fs.writeFileSync(filename, data)
WriteFileSync(files, filename, data) ==
  [f \in DOMAIN files \cup {filename} |-> IF f = filename THEN data ELSE files[f]]

(***************************************************************************)
(* The export store: records with and without Git provenance, exported     *)
(* by id list, by empty list and without a list                            *)
(***************************************************************************)
\* ids arrays passed to export-footprints: up to two ids, repeated or unknown ones included
ExportIds ==
  {<< >>} \cup {<< i >> : i \in 1..(MaxExportIds + 1)}
          \cup {<< i, j >> : i, j \in 1..(MaxExportIds + 1)}

ExportCreate ==
  /\ last.op = "none"
  /\ nextId < MaxExportIds
  /\ \E gitInfo \in GitResults :
       evidences' = DbCreate(evidences, nextId + 1,
                             [PlainRow(NULL, now) EXCEPT !.gitCommitHash = gitInfo.commitHash,
                                                         !.gitTimestamp = gitInfo.timestamp],
                             now)
  /\ nextId' = nextId + 1
  /\ last' = NoLast
  /\ UNCHANGED << now, crypto_keys, serverVars >>

\* the export-footprints handler: exportEvidences(), then the archive is written
StoreExport ==
  /\ last.op = "none"
  /\ \E hasIds \in BOOLEAN, ids \in ExportIds, includeGitInfo \in BOOLEAN :
       /\ ~hasIds => ids = << >>
       /\ LET r == ExportEvidences(evidences, hasIds, ids, includeGitInfo, now)
          IN  /\ r.ok => Cardinality(DOMAIN exportFiles) < MaxExports
              /\ exportFiles' = IF r.ok THEN WriteFileSync(exportFiles, r.filename, r.zipData)
                                ELSE exportFiles
              /\ last' = [op |-> "export",
                          arg |-> << hasIds, ids, includeGitInfo, exportFiles >>,
                          t |-> now, pre |-> evidences, ok |-> r.ok, ret |-> r]
  /\ UNCHANGED << evidences, nextId, now, crypto_keys, keyVars >>

ExportNext ==
  \/ Return
  \/ ExportCreate
  \/ StoreDelete
  \/ StoreExport

ExportSpec == StoreInit /\ [][ExportNext]_vars

(***************************************************************************)
(* Claims about export                                                     *)
(***************************************************************************)
\* the ids of an export request that the store did not hold
LastMissing == {last.arg[2][k] : k \in 1..Len(last.arg[2])} \ DOMAIN last.pre

\* C11: the checksum manifest of an exported archive has exactly one hash entry for
\* every file of the requested records and one for manifest.json, and no other entry.
C11_ExportChecksumsComplete ==
  (last.op = "export" /\ last.ok) =>
    LET zip      == last.ret.zipData
        entries  == zip[ZipPath(0, "checksum.txt")]
        expected == {q \in DOMAIN zip : q.fp # 0} \cup {ZipPath(0, "manifest.json")}
    IN  /\ {entries[k].path : k \in 1..Len(entries)} = expected
        /\ Len(entries) = Cardinality(expected)
        /\ \A k \in 1..Len(entries) : entries[k].hash = Sha256Hex(zip[entries[k].path])

\* C12: an export that names an id the store does not hold fails, its error names
\* every missing id of the request, no archive is produced, no file is written and
\* the store is unchanged.
C12_ExportMissingRefused ==
  (last.op = "export" /\ last.arg[1] /\ LastMissing # {}) =>
    /\ ~last.ok
    /\ {last.ret.notFound[k] : k \in 1..Len(last.ret.notFound)} = LastMissing
    /\ last.ret.zipData = << >>
    /\ exportFiles = last.arg[4]
    /\ evidences = last.pre

\* an export naming two missing ids, on a store that holds a record and after an
\* earlier export has written its file
C12_Witness ==
  /\ last.op = "export"
  /\ last.arg[1]
  /\ Cardinality(LastMissing) = 2
  /\ DOMAIN last.pre # {}
  /\ DOMAIN exportFiles # {}
  /\ ~last.ok

\* C13: export with ids omitted or with an empty ids array exports every record of
\* the store: footprintCount is the number of stored records.
C13_ExportEmptyMeansAll ==
  (last.op = "export" /\ last.arg[2] = << >>) =>
    /\ last.ok
    /\ last.ret.footprintCount = Cardinality(DOMAIN last.pre)

(***************************************************************************)
(* Verification: one caller, a second instance configured with the same or *)
(* with another passphrase, and a store file whose ciphertext and nonce    *)
(* columns may be altered from outside                                     *)
(***************************************************************************)
PassA == << "p", "w" >>
PassB == << "p", "x" >>

\* a ciphertext changed after encryption: its tag verifies under no key
Altered(ciphertext) == [ciphertext EXCEPT !.k = NoKey]

\* the initial state of a store opened by instances with the given passphrases
InitWith(passwordSets) ==
  /\ evidences = << >>
  /\ nextId = 0
  /\ now = 0
  /\ last = NoLast
  /\ \E passwords \in passwordSets : ServerIdleWith(passwords)

VerifyInit == InitWith({[s1 |-> PassA, s2 |-> p] : p \in {PassA, PassB}})

\* the encrypted_content column of a record is overwritten in the database file
TamperCiphertext ==
  /\ NoResponse
  /\ \E id \in DOMAIN evidences :
       /\ evidences[id].encryptedContent.k # NoKey
       /\ evidences' = [evidences EXCEPT ![id].encryptedContent = Altered(@)]
  /\ UNCHANGED << crypto_keys, nextId, now, serverVars, last >>

\* the nonce column of a record is overwritten in the database file
TamperNonce ==
  /\ NoResponse
  /\ \E id \in DOMAIN evidences :
       /\ evidences[id].nonce # 0
       /\ evidences' = [evidences EXCEPT ![id].nonce = 0]
  /\ UNCHANGED << crypto_keys, nextId, now, serverVars, last >>

VerifyNext ==
  \/ CaptureCall("c1", {<< "x" >>, << "BOM", "x" >>})
  \/ VerifyCall("c1")
  \/ CallerResume("c1", {1})
  \/ CaptureFinish("c1", GitResults)
  \/ CallReturn("c1")
  \/ \E a \in 1..MaxAttempts : DerivationResume(a)
  \/ TamperCiphertext
  \/ TamperNonce

VerifySpec == VerifyInit /\ [][VerifyNext]_vars

(***************************************************************************)
(* Claims about verification                                               *)
(***************************************************************************)
\* the verify-footprint calls that obtained a key and have finished
VerifyDone == {c \in Callers : calls[c].pc = "done" /\ calls[c].op = "verify" /\ calls[c].key # 0}

\* decryption of the record a finished verify-footprint call read, under the key it got
VerifyDecrypt(c) ==
  Decrypt(calls[c].fp.encryptedContent, calls[c].fp.nonce, keyBytes[calls[c].key])

\* C14: verify-footprint reports verified = true if and only if decryption succeeds,
\* the SHA-256 of the decrypted plaintext equals the stored contentHash, and both
\* gitCommitHash and gitTimestamp are present; a record without provenance is never
\* reported verified.
C14_VerificationVerdict ==
  \A c \in VerifyDone :
    calls[c].ok =>
      /\ calls[c].ret.verified <=>
           /\ VerifyDecrypt(c).ok
           /\ Sha256(VerifyDecrypt(c).plaintext) = calls[c].fp.contentHash
           /\ calls[c].fp.gitCommitHash # NULL
           /\ calls[c].fp.gitTimestamp # NULL
      /\ (calls[c].fp.gitCommitHash = NULL \/ calls[c].fp.gitTimestamp = NULL) =>
           ~calls[c].ret.verified

\* a record captured without provenance: its content-integrity and decryption checks
\* pass and it is reported not verified
C14_Witness ==
  \E c \in VerifyDone :
    /\ calls[c].ok
    /\ calls[c].fp.gitCommitHash = NULL
    /\ calls[c].ret.checks.contentIntegrity.passed
    /\ calls[c].ret.checks.encryptionStatus.passed
    /\ ~calls[c].ret.verified

\* C15: when decryption of an existing record fails, verify-footprint does not raise
\* an error: it returns contentIntegrity.passed = false with an empty hash,
\* encryptionStatus.passed = false and verified = false, after exactly one decryption.
C15_VerifyNeverThrows ==
  \A c \in VerifyDone :
    ~VerifyDecrypt(c).ok =>
      /\ calls[c].ok
      /\ calls[c].ret.checks.contentIntegrity.passed = FALSE
      /\ calls[c].ret.checks.contentIntegrity.hash = << >>
      /\ calls[c].ret.checks.encryptionStatus.passed = FALSE
      /\ calls[c].ret.verified = FALSE
      /\ calls[c].ret.checks.decrypts = 1

\* verification under the key of another passphrase, of a record whose ciphertext and
\* nonce are as captured, returned its result
C15_Witness ==
  \E c \in VerifyDone :
    /\ calls[c].ok
    /\ ~VerifyDecrypt(c).ok
    /\ calls[c].fp.encryptedContent.k # NoKey
    /\ calls[c].fp.encryptedContent.n = calls[c].fp.nonce
    /\ calls[c].fp.encryptedContent.k # keyBytes[calls[c].key]

(***************************************************************************)
(* An instance constructed with an empty passphrase, on the store of an    *)
(* instance that has one                                                   *)
(***************************************************************************)
PassInit == InitWith({[s1 |-> p, s2 |-> << >>] : p \in {PassA, << >>}})

PassNext ==
  \/ \E c \in Callers : CaptureCall(c, {<< "x" >>})
  \/ \E c \in Callers : GetCall(c)
  \/ \E c \in Callers : VerifyCall(c)
  \/ \E c \in Callers : ResourceCall(c)
  \/ \E c \in Callers : CallerResume(c, {1})
  \/ \E c \in Callers : CaptureFinish(c, {[commitHash |-> NULL, timestamp |-> NULL]})
  \/ \E c \in Callers : CallReturn(c)
  \/ \E a \in 1..MaxAttempts : DerivationResume(a)

PassSpec == PassInit /\ [][PassNext]_vars

\* the instances constructed with an empty passphrase
NoPassphrase == {s \in Servers : password[s] = << >>}

\* the calls made on such an instance
NoPassphraseCalls == {c \in Callers : calls[c].pc # "idle" /\ calls[c].srv \in NoPassphrase}

\* no call of such an instance gets a key or succeeds, no key is derived or cached,
\* and the salt row, if there is one, was written by another instance
NoPassphraseUnusable ==
  /\ \A s \in NoPassphrase : derivedKey[s] = 0
  /\ \A a \in DOMAIN attempts :
       attempts[a].srv \in NoPassphrase =>
         attempts[a].status # "resolved" /\ keyBytes[a] = NoKey
  /\ \A c \in NoPassphraseCalls :
       /\ calls[c].key = 0
       /\ calls[c].pc \in {"awaitKey", "done"}
       /\ calls[c].pc = "done" => ~calls[c].ok
  /\ crypto_keys # 0 => attempts[crypto_keys].srv \notin NoPassphrase

\* a step that writes a record or the salt row is taken by an instance with a passphrase
NoPassphraseWritesNothing ==
  /\ Len(evidences') > Len(evidences) =>
       \E c \in Callers : /\ calls[c].pc = "awaitGit"
                          /\ calls'[c].pc = "done"
                          /\ calls[c].srv \notin NoPassphrase
  /\ crypto_keys' # crypto_keys =>
       \E a \in DOMAIN attempts : /\ attempts[a].status = "pending"
                                  /\ attempts'[a].status = "resolved"
                                  /\ attempts[a].srv \notin NoPassphrase

\* C16: on a server constructed with an empty passphrase every capture, get, verify and
\* resource read fails, no key is ever cached, and no record and no salt row is ever
\* written by it, whatever the sequence of calls.
C16_NoPassphraseNoCrypto ==
  [](NoPassphraseUnusable) /\ [][NoPassphraseWritesNothing]_vars

\* on the store that another instance has given a salt and a record, a read of that
\* record through the instance without passphrase reached the key derivation and failed
C16_Witness ==
  /\ crypto_keys # 0
  /\ \E c \in NoPassphraseCalls :
       /\ calls[c].pc = "done"
       /\ calls[c].op \in {"get", "verify", "resource"}
       /\ FindById(evidences, calls[c].id) # 0
       /\ calls[c].att # 0
       /\ attempts[calls[c].att].status = "rejected"
       /\ ~calls[c].ok

(***************************************************************************)
(* EvidenceDatabase.deleteMany and the tool delete-footprints              *)
(***************************************************************************)
MaxDeleteIds == 3     \* records created in the bulk-delete specification
MaxDeleteLen == 3     \* longest evidenceIds array passed to delete-footprints

\* the values that occur in an array
Range(seq) == {seq[k] : k \in DOMAIN seq}

\* a bulk delete that counts one change for every id it was given
DeleteManyPerId(ev, ids) ==
  [changes |-> Len(ids), ev |-> [i \in DOMAIN ev \ Range(ids) |-> ev[i]]]

\* deleteMany(): DELETE FROM evidences WHERE id IN (?, ..., ?); result.changes is the
\* number of rows the statement removed
DeleteMany(ev, ids) ==
  IF Len(ids) = 0 THEN [changes |-> 0, ev |-> ev]
  ELSE LET rows == {i \in DOMAIN ev : \E k \in DOMAIN ids : i = ids[k]}
       IN  [changes |-> Cardinality(rows), ev |-> [i \in DOMAIN ev \ rows |-> ev[i]]]

\* the handler of delete-footprints
DeleteFootprints(ev, evidenceIds) ==
  IF Len(evidenceIds) = 0
  THEN [ok |-> FALSE, ev |-> ev, deletedCount |-> 0, success |-> FALSE]
  ELSE LET r == DeleteMany(ev, evidenceIds)
       IN  [ok |-> TRUE, ev |-> r.ev, deletedCount |-> r.changes, success |-> r.changes > 0]

\* evidenceIds arrays: ids of stored, deleted and never created records, with repetitions
DeleteIds ==
  UNION {[1..n -> 1..(MaxDeleteIds + 1)] : n \in 0..MaxDeleteLen}

DeleteCreate == CreateOp({NULL, TagA}, MaxDeleteIds)

StoreDeleteMany ==
  /\ last.op = "none"
  /\ \E ids \in DeleteIds :
       LET r == DeleteFootprints(evidences, ids)
       IN  /\ evidences' = r.ev
           /\ last' = [op |-> "deleteMany", arg |-> ids, t |-> now, pre |-> evidences,
                       ok |-> r.ok, ret |-> r.deletedCount]
  /\ UNCHANGED << nextId, now, crypto_keys, serverVars >>

DeleteNext == Return \/ DeleteCreate \/ StoreDeleteMany

DeleteSpec == StoreInit /\ [][DeleteNext]_vars

\* C17: deleteMany(ids) removes exactly the stored records whose id occurs in ids,
\* returns the number of records actually removed (a repeated or absent id adds nothing
\* to the count and raises no error), and leaves every other record unchanged.
C17_DeleteManyExact ==
  (last.op = "deleteMany" /\ Len(last.arg) > 0) =>
    /\ last.ok
    /\ DOMAIN evidences = DOMAIN last.pre \ Range(last.arg)
    /\ \A i \in DOMAIN evidences : evidences[i] = last.pre[i]
    /\ last.ret = Cardinality(DOMAIN last.pre) - Cardinality(DOMAIN evidences)
    /\ last.ret = Cardinality(DOMAIN last.pre \cap Range(last.arg))

\* a bulk delete given a stored id twice and an id that is not stored, with another
\* record left in the store: it removed one record and counted one
C17_Witness ==
  /\ last.op = "deleteMany"
  /\ last.ok
  /\ last.ret = 1
  /\ \E j, k \in DOMAIN last.arg : j # k /\ last.arg[j] = last.arg[k]
                                         /\ last.arg[j] \in DOMAIN last.pre
  /\ \E k \in DOMAIN last.arg : last.arg[k] \notin DOMAIN last.pre
  /\ DOMAIN evidences # {}

(***************************************************************************)
(* addTags() called repeatedly: any string is a tag, the method has no     *)
(* caller in the repository that restricts its arguments                   *)
(***************************************************************************)
\* tags column values the records start with
MergeCreateTags == { NULL, TagA, << "a", ",", "a" >> }

\* tags arrays passed to addTags(): empty, blank, plain, padded, and one tag that
\* contains the separator
MergeArgs ==
  { << >>, << << " " >> >>, << TagA >>, << TagB >>, << << " ", "a" >>, TagB >>,
    << << "a", ",", "b" >> >> }

MergeCreate == CreateOp(MergeCreateTags, MaxIds)

\* addTags(id, tags) on a stored or an unknown id; calls follow one another directly.
\* ret counts how many times in a row this same call has now been made (1 or 2).
MergeAddTags ==
  /\ \E id \in 1..(nextId + 1), tags \in MergeArgs :
       LET r == AddTags(evidences, id, tags, now)
       IN  /\ evidences' = r.ev
           /\ last' = [op |-> "addTags", arg |-> << id, tags >>, t |-> now,
                       pre |-> evidences, ok |-> r.ok,
                       ret |-> IF last.op = "addTags" /\ last.arg = << id, tags >>
                               THEN 2 ELSE 1]
  /\ UNCHANGED << nextId, now, crypto_keys, serverVars >>

MergeNext == Return \/ Tick \/ MergeCreate \/ MergeAddTags

MergeSpec == StoreInit /\ [][MergeNext]_vars

\* the trimmed non-blank tokens of a tag list
TagList(tags) == FilterNonEmpty(MapTrim(TokensOf(tags)))

\* C18: addTags is idempotent: for every existing record and every tag t, calling
\* addTags(id, [t]) twice in a row leaves the same tag list as calling it once.
C18_AddTagsIdempotent ==
  (last.op = "addTags" /\ last.ret = 2 /\ Len(last.arg[2]) = 1
                       /\ last.arg[1] \in DOMAIN last.pre) =>
    /\ evidences[last.arg[1]].tags = last.pre[last.arg[1]].tags
    /\ TagList(evidences[last.arg[1]].tags) = TagList(last.pre[last.arg[1]].tags)

\* C19: a successful addTags(id, tags) leaves the record's previous tokens followed by
\* the trimmed non-blank new tags that were not already present, without duplicates;
\* with tags empty or all blank, or an unknown id, the call fails and changes nothing.
C19_AddTagsMerges ==
  last.op = "addTags" =>
    LET id    == last.arg[1]
        valid == FilterNonEmpty(MapTrim(last.arg[2]))
    IN  /\ last.ok <=> (Len(valid) > 0 /\ id \in DOMAIN last.pre)
        /\ last.ok =>
             /\ TagList(evidences[id].tags) = Dedup(TagList(last.pre[id].tags) \o valid)
             /\ NoDuplicateTokens(evidences[id].tags)
             /\ \A i \in DOMAIN last.pre \ {id} : evidences[i] = last.pre[i]
        /\ ~last.ok => evidences = last.pre

(***************************************************************************)
(* The tool search-footprints with date bounds                             *)
(***************************************************************************)
\* the handler: validation of limit, offset and the two dates, then search()
SearchFootprints(ev, query, tags, dateFrom, dateTo, limit, offset) ==
  IF limit # Undefined /\ limit <= 0 THEN [ok |-> FALSE, footprints |-> << >>]
  ELSE IF offset # Undefined /\ offset < 0 THEN [ok |-> FALSE, footprints |-> << >>]
  ELSE IF Truthy(dateFrom) /\ ~DateParse(dateFrom).valid
  THEN [ok |-> FALSE, footprints |-> << >>]
  ELSE IF Truthy(dateTo) /\ ~DateParse(dateTo).valid
  THEN [ok |-> FALSE, footprints |-> << >>]
  ELSE [ok |-> TRUE,
        footprints |-> DbSearch(ev, query, tags, dateFrom, dateTo, limit, offset)]

\* dateFrom / dateTo arguments: absent, the instants of the model in three notations,
\* a date without time, and text that is no date
DateArgs ==
  {NULL, DayText, << "x" >>, ToISOOffset(0)}
    \cup {ToISOString(t) : t \in 0..MaxTime} \cup {ToISOSeconds(t) : t \in 0..MaxTime}

\* tags arguments of the searches with date bounds
DateSearchTags == { << >>, << TagA >> }

DateCreate == CreateOp({NULL, TagA}, MaxIds)

DateSearch ==
  /\ last.op = "none"
  /\ \E dateFrom \in DateArgs, dateTo \in DateArgs, tags \in DateSearchTags :
       LET r == SearchFootprints(evidences, NULL, tags, dateFrom, dateTo,
                                 Undefined, Undefined)
       IN  last' = [op |-> "searchDates", arg |-> << dateFrom, dateTo, tags >>, t |-> now,
                    pre |-> evidences, ok |-> r.ok, ret |-> r.footprints]
  /\ UNCHANGED << evidences, nextId, now, crypto_keys, serverVars >>

DateNext == Return \/ Tick \/ DateCreate \/ DateSearch

DateSpec == StoreInit /\ [][DateNext]_vars

\* the records of the store searched whose capture instant lies between the two bounds
\* of the last search, bounds included, and which carry all the tags asked for
WithinBounds ==
  LET dateFrom == last.arg[1]
      dateTo   == last.arg[2]
      tags     == last.arg[3]
  IN  {i \in DOMAIN last.pre :
         /\ Truthy(dateFrom) => DateParse(dateFrom).time <= last.pre[i].timestamp
         /\ Truthy(dateTo) => last.pre[i].timestamp <= DateParse(dateTo).time
         /\ \A k \in 1..Len(tags) : HasToken(last.pre[i].tags, tags[k])}

\* C20: date bounds are inclusive: for every dateFrom and dateTo that search-footprints
\* accepts as valid dates, search returns exactly the records whose capture timestamp
\* is at or after dateFrom and at or before dateTo, intersected with the tags filter.
C20_DateBoundsInclusive ==
  (last.op = "searchDates" /\ last.ok) => Range(last.ret) = WithinBounds

(***************************************************************************)
(* Every operation on the records: the tools that capture and read them    *)
(* through one instance call at a time, and the EvidenceDatabase methods   *)
(***************************************************************************)
StoreUpdateTags ==
  /\ last.op = "none"
  /\ \E id \in 1..(nextId + 1), tags \in {NULL, TagA} :
       LET r == UpdateTags(evidences, id, tags, now)
       IN  /\ evidences' = r.ev
           /\ last' = [op |-> "updateTags", arg |-> << id, tags >>, t |-> now,
                       pre |-> evidences, ok |-> TRUE, ret |-> r.changed]
  /\ UNCHANGED << nextId, now, crypto_keys, serverVars >>

StoreUpdateGitInfo ==
  /\ last.op = "none"
  /\ \E id \in 1..(nextId + 1) :
       LET r == UpdateGitInfo(evidences, id, << "g" >>, << "t" >>, now)
       IN  /\ evidences' = r.ev
           /\ last' = [op |-> "updateGitInfo", arg |-> << id >>, t |-> now,
                       pre |-> evidences, ok |-> r.ok, ret |-> 0]
  /\ UNCHANGED << nextId, now, crypto_keys, serverVars >>

\* the tool calls are made on the instance s1, one step at a time with the database
\* methods; the run is followed up to the first archive an export writes
FrameCall(c) == last.op = "none" /\ calls'[c].srv \in {"s1", ""}

FrameNext ==
  \/ Return
  \/ /\ exportFiles = << >>
     /\ \/ CaptureCall("c1", {<< "x" >>}) /\ FrameCall("c1")
        \/ CaptureFinish("c1", GitResults) /\ FrameCall("c1")
        \/ GetCall("c1") /\ FrameCall("c1")
        \/ VerifyCall("c1") /\ FrameCall("c1")
        \/ CallerResume("c1", {1}) /\ FrameCall("c1")
        \/ CallReturn("c1") /\ FrameCall("c1")
        \/ last.op = "none" /\ \E a \in 1..MaxAttempts : DerivationResume(a)
        \/ StoreDelete
        \/ StoreAddTags
        \/ RenameTagOp({TagA, TagB}, {TagA, TagB}, 0)
        \/ RemoveTagOp({TagB}, 0)
        \/ StoreUpdateTags
        \/ StoreUpdateGitInfo
        \/ StoreSearch
        \/ StoreList
        \/ StoreExport

FrameSpec == StoreInit /\ [][FrameNext]_vars

\* the fields of a record that are written at its creation
Content(row) ==
  << row.timestamp, row.encryptedContent, row.nonce, row.contentHash >>

\* a record present before and after a step keeps the content it had
ContentKept ==
  \A i \in DOMAIN evidences \cap DOMAIN evidences' :
     Content(evidences'[i]) = Content(evidences[i])

\* C21: from a record's creation until its deletion, no operation (addTags, updateTags,
\* renameTag, removeTag, updateGitInfo, get, verify, list, search, export, deletion of
\* other records) changes its id, timestamp, encryptedContent, nonce or contentHash.
C21_ContentImmutable == [][ContentKept]_vars

\* a captured record that has since been given tags and then git information, and
\* still decrypts to the content whose hash it carries
C21_Witness ==
  /\ last.op = "updateGitInfo"
  /\ last.ok
  /\ LET id == last.arg[1]
     IN  /\ last.pre[id].gitCommitHash = NULL
         /\ evidences[id].gitCommitHash # NULL
         /\ evidences[id].tags # NULL
         /\ evidences[id].encryptedContent # << >>
         /\ evidences[id].contentHash = Sha256(<< "x" >>)

(***************************************************************************)
(* Provenance                                                              *)
(***************************************************************************)
\* C22: in every store state reachable through the tools, each record has
\* gitCommitHash and gitTimestamp either both present or both absent.
C22_ProvenancePair ==
  \A i \in DOMAIN evidences :
     (evidences[i].gitCommitHash = NULL) <=> (evidences[i].gitTimestamp = NULL)

\* the store holds a record captured inside a repository and one captured outside
C22_Witness ==
  \E i, j \in DOMAIN evidences :
     /\ evidences[i].gitCommitHash # NULL /\ evidences[i].gitTimestamp # NULL
     /\ evidences[j].gitCommitHash = NULL /\ evidences[j].gitTimestamp = NULL

(***************************************************************************)
(* decrypt() called directly, on what encrypt() returned and on changed    *)
(* inputs                                                                  *)
(***************************************************************************)
\* what is changed between encrypt() and decrypt()
Causes == {"nothing", "key", "ciphertext", "truncated", "nonce"}

\* 32-byte keys
DecryptKeys == {Argon2id(PassA, 1), Argon2id(PassB, 1)}

\* encrypt(content, key) under nonce, then decrypt() with the one input changed
DecryptAfter(cause, content, key, nonce) ==
  LET e         == Encrypt(content, key, nonce)
      otherKey  == CHOOSE k \in DecryptKeys : k # key
      otherNonce == CHOOSE n \in Nonces : n # nonce
  IN  CASE cause = "key"        -> Decrypt(e.ciphertext, e.nonce, otherKey)
        [] cause = "ciphertext" -> Decrypt(Altered(e.ciphertext), e.nonce, key)
        [] cause = "truncated"  -> Decrypt(<< >>, e.nonce, key)
        [] cause = "nonce"      -> Decrypt(e.ciphertext, otherNonce, key)
        [] OTHER                -> Decrypt(e.ciphertext, e.nonce, key)

\* one call of decrypt(); pre keeps the cause and the error of the failed call before it
DecryptCall ==
  /\ \E cause \in Causes, content \in Contents, key \in DecryptKeys, nonce \in Nonces :
       LET r == DecryptAfter(cause, content, key, nonce)
       IN  last' = [op |-> "decrypt", arg |-> << cause, content, key, nonce >>, t |-> now,
                    pre |-> IF last.op = "decrypt" /\ ~last.ok
                            THEN << last.arg[1], last.ret >> ELSE << >>,
                    ok |-> r.ok, ret |-> r.error]
  /\ UNCHANGED << evidences, nextId, now, crypto_keys, serverVars >>

DecryptNext == Return \/ DecryptCall

DecryptSpec == StoreInit /\ [][DecryptNext]_vars

\* C23: for any call of decrypt with a 32-byte key and a 24-byte nonce that fails, the
\* error returned is the same whether the cause is a wrong key, a modified ciphertext
\* or a modified nonce.
C23_DecryptFailuresAlike ==
  (last.op = "decrypt" /\ ~last.ok) =>
    /\ last.ret = DecryptionFailed
    /\ last.pre # << >> => last.ret = last.pre[2]

\* a decryption that failed for a truncated ciphertext right after one that failed for
\* a wrong key
C23_Witness ==
  /\ last.op = "decrypt"
  /\ ~last.ok
  /\ last.arg[1] = "truncated"
  /\ last.pre # << >>
  /\ last.pre[1] = "key"

(***************************************************************************)
(* Validation in the tools capture-footprint, list-footprints and          *)
(* search-footprints                                                       *)
(***************************************************************************)
\* the handler of list-footprints
ListFootprints(ev, limit, offset) ==
  IF limit # Undefined /\ limit <= 0 THEN [ok |-> FALSE, footprints |-> << >>]
  ELSE IF offset # Undefined /\ offset < 0 THEN [ok |-> FALSE, footprints |-> << >>]
  ELSE [ok |-> TRUE, footprints |-> DbList(ev, limit, offset)]

\* limit and offset arguments: omitted, out of range, in range
PageArgs == {Undefined, -5, 0, 1}

\* what a call can have changed when it returns or first waits
Effects == << evidences, crypto_keys, derivedKey, keyDerivationPromise, attempts >>

ToolCapture(c) ==
  /\ last.op = "none"
  /\ NoResponse
  /\ calls[c].pc = "idle"
  /\ \E s \in Servers, content \in {<< "x" >>, << " " >>, << >>}, messageCount \in {-5, 0, 1},
        conversationId \in {<< "c" >>, << "c", "," >>, << "NL" >>},
        tags \in {NULL, << >>, << " " >>, << "," >>, << " ", "a", ",", "b" >>} :
       LET v == CaptureValidation(content, messageCount, conversationId, tags)
       IN  /\ IF ~v.ok
              THEN /\ calls' = [calls EXCEPT ![c] =
                                  Failed([IdleCall EXCEPT !.srv = s, !.op = "capture"])]
                   /\ UNCHANGED << attempts, keyBytes, keyDerivationPromise >>
              ELSE /\ CapturesIssued < MaxCaptures
                   /\ AwaitKey(c, s, "capture", content, 0,
                               [encryptedContent |-> << >>, nonce |-> 0,
                                conversationId |-> conversationId, tags |-> v.tags])
           /\ last' = [op |-> "capture",
                       arg |-> << content, messageCount, conversationId, tags >>,
                       t |-> now, pre |-> Effects, ok |-> v.ok, ret |-> 0]
  /\ UNCHANGED << evidences, crypto_keys, nextId, now, password, derivedKey, dbOpen,
                  closed, captured, exportFiles >>

ToolList ==
  /\ last.op = "none"
  /\ \E limit \in PageArgs, offset \in PageArgs :
       LET r == ListFootprints(evidences, limit, offset)
       IN  last' = [op |-> "list", arg |-> << limit, offset, NULL, NULL >>, t |-> now,
                    pre |-> Effects, ok |-> r.ok, ret |-> r.footprints]
  /\ UNCHANGED << evidences, nextId, now, crypto_keys, serverVars >>

ToolSearch ==
  /\ last.op = "none"
  /\ \E limit \in PageArgs, offset \in PageArgs,
        dateFrom \in {NULL, << >>, << "x" >>, ToISOString(0)},
        dateTo \in {NULL, << >>, << "x" >>, ToISOString(0)} :
       LET r == SearchFootprints(evidences, NULL, << >>, dateFrom, dateTo, limit, offset)
       IN  last' = [op |-> "search", arg |-> << limit, offset, dateFrom, dateTo >>,
                    t |-> now, pre |-> Effects, ok |-> r.ok, ret |-> r.footprints]
  /\ UNCHANGED << evidences, nextId, now, crypto_keys, serverVars >>

\* a tool call returns or reaches its first await before anything else runs
ValidNext ==
  \/ Return
  \/ ToolCapture("c1")
  \/ last.op = "none" /\ CallerResume("c1", {1})
  \/ last.op = "none" /\ CaptureFinish("c1", {[commitHash |-> NULL, timestamp |-> NULL]})
  \/ last.op = "none" /\ CallReturn("c1")
  \/ last.op = "none" /\ \E a \in 1..MaxAttempts : DerivationResume(a)
  \/ ToolList
  \/ ToolSearch

ValidSpec == StoreInit /\ [][ValidNext]_vars

\* a date argument that is given and is no date
Unparsable(date) == date # NULL /\ ~DateParse(date).valid

\* the parameters of the last tool call are invalid
LastInvalid ==
  \/ /\ last.op \in {"list", "search"}
     /\ \/ last.arg[1] # Undefined /\ last.arg[1] <= 0
        \/ last.arg[2] # Undefined /\ last.arg[2] < 0
        \/ Unparsable(last.arg[3])
        \/ Unparsable(last.arg[4])
  \/ /\ last.op = "capture"
     /\ \/ Len(Trim(last.arg[1])) = 0
        \/ last.arg[2] <= 0
        \/ HasForbidden(last.arg[3])
        \/ last.arg[4] # NULL /\ FilterNonEmpty(MapTrim(Split(last.arg[4]))) = << >>

\* C24: a tool call whose parameters are invalid (list-footprints or search-footprints
\* with limit <= 0, offset < 0 or an unparsable date; capture-footprint with blank
\* content, messageCount <= 0, a conversationId containing a null byte, newline or
\* comma, or tags with no non-blank token) is rejected before any store read or write
\* and before any key derivation: records, salt and key cache are unchanged.
C24_ValidationFirst ==
  LastInvalid => (~last.ok /\ Effects = last.pre)

(***************************************************************************)
(* Opening the store: new FootprintServer(config) -> new EvidenceDatabase  *)
(* -> createSchema.  password is defined on the instances that exist.      *)
(***************************************************************************)
\* the database file when a constructor runs: sound, not a database, or not openable
Files == {"sound", "corrupted", "unopenable"}

\* createSchema(db): the first statement fails on a file that is no database; the catch
\* closes the connection and rethrows
CreateSchema(file) ==
  IF file = "corrupted" THEN [ok |-> FALSE, conn |-> "closed"]
  ELSE [ok |-> TRUE, conn |-> "open"]

\* a constructor whose failure path leaves the connection as new Database() made it
NewEvidenceDatabaseLeaking(file) ==
  IF file = "unopenable" THEN [ok |-> FALSE, conn |-> "none"]
  ELSE [ok |-> CreateSchema(file).ok, conn |-> "open"]

\* new EvidenceDatabase(dbPath): new Database(dbPath) throws before there is a
\* connection, or createSchema() runs; on its failure this.db.close() (a no-op on a
\* closed connection) and the error is rethrown
NewEvidenceDatabase(file) ==
  IF file = "unopenable" THEN [ok |-> FALSE, conn |-> "none"]
  ELSE LET r == CreateSchema(file)
       IN  IF r.ok THEN [ok |-> TRUE, conn |-> r.conn]
           ELSE [ok |-> FALSE, conn |-> "closed"]

\* new FootprintServer(config): the object exists only if the database was opened
NewFootprintServer(file) == NewEvidenceDatabase(file)

\* no instance constructed, no connection
OpenInit ==
  /\ evidences = << >> /\ nextId = 0 /\ now = 0 /\ last = NoLast
  /\ password = << >>
  /\ crypto_keys = 0
  /\ derivedKey = [s \in Servers |-> 0]
  /\ keyDerivationPromise = [s \in Servers |-> 0]
  /\ dbOpen = [s \in Servers |-> FALSE]
  /\ closed = [s \in Servers |-> FALSE]
  /\ attempts = << >>
  /\ keyBytes = << >>
  /\ calls = [c \in Callers |-> IdleCall]
  /\ captured = << >>
  /\ exportFiles = << >>

Construct ==
  /\ last.op = "none"
  /\ \E s \in Servers \ DOMAIN password, file \in Files :
       LET r == NewFootprintServer(file)
       IN  /\ password' = IF r.ok THEN [x \in DOMAIN password \cup {s} |->
                                          IF x = s THEN PassA ELSE password[x]]
                          ELSE password
           /\ dbOpen' = [dbOpen EXCEPT ![s] = (r.conn = "open")]
           /\ last' = [op |-> "construct", arg |-> << s, file >>, t |-> now,
                       pre |-> evidences, ok |-> r.ok, ret |-> r.conn]
  /\ UNCHANGED << evidences, crypto_keys, nextId, now, derivedKey, keyDerivationPromise,
                  closed, attempts, keyBytes, calls, captured, exportFiles >>

\* tool calls are made on the instances that exist
OnInstance(c) == last.op = "none" /\ calls'[c].srv \in DOMAIN password \cup {""}

OpenNext ==
  \/ Return
  \/ Construct
  \/ CaptureCall("c1", {<< "x" >>}) /\ OnInstance("c1")
  \/ GetCall("c1") /\ OnInstance("c1")
  \/ CallerResume("c1", {1}) /\ OnInstance("c1")
  \/ CaptureFinish("c1", {[commitHash |-> NULL, timestamp |-> NULL]}) /\ OnInstance("c1")
  \/ CallReturn("c1") /\ OnInstance("c1")
  \/ \E a \in 1..MaxAttempts : DerivationResume(a)

OpenSpec == OpenInit /\ [][OpenNext]_vars

\* C25: if schema initialisation fails while opening the store, the constructor throws,
\* the database connection has been closed before the error propagates, and no server
\* object able to serve any operation on that store exists.
C25_OpenFailsClosed ==
  /\ (last.op = "construct" /\ last.arg[2] = "corrupted") =>
       /\ ~last.ok
       /\ last.ret = "closed"
       /\ last.arg[1] \notin DOMAIN password
  /\ \A s \in Servers \ DOMAIN password : ~dbOpen[s]

\* the constructor failed on a corrupted file, after another instance had opened the
\* store and captured a record in it
C25_Witness ==
  /\ last.op = "construct"
  /\ last.arg[2] = "corrupted"
  /\ ~last.ok
  /\ DOMAIN password # {}
  /\ DOMAIN evidences # {}

(***************************************************************************)
(* The export size ceiling: records whose encrypted contents are large,    *)
(* exported alone, together and repeatedly                                 *)
(***************************************************************************)
\* lengths of the encrypted contents: half the ceiling, the ceiling, and a byte over each
ContentSizes ==
  {50 * MiB, 50 * MiB + 1, MAX_EXPORT_SIZE_MB * MiB, MAX_EXPORT_SIZE_MB * MiB + 1}

SizeCreate ==
  /\ last.op = "none"
  /\ nextId < MaxExportIds
  /\ \E bytes \in ContentSizes :
       evidences' = DbCreate(evidences, nextId + 1,
                             [PlainRow(NULL, now) EXCEPT !.encryptedContent = [bytes |-> bytes]],
                             now)
  /\ nextId' = nextId + 1
  /\ last' = NoLast
  /\ UNCHANGED << now, crypto_keys, serverVars >>

SizeNext ==
  \/ Return
  \/ SizeCreate
  \/ StoreExport

SizeSpec == StoreInit /\ [][SizeNext]_vars

\* the records an export request selects, each as often as the request selects it
LastSelected == ExportFootprints(last.pre, last.arg[1], last.arg[2])

\* C26: an export whose records all exist fails, producing no archive and writing no
\* file, exactly when the encryptedContent lengths of the records it selects, a record
\* counted as often as it is selected, add up to more than 100 * 1024 * 1024 bytes.
C26_ExportSizeCeiling ==
  (last.op = "export" /\ LastMissing = {}) =>
    /\ ~last.ok <=> EncryptedBytes(last.pre, LastSelected) > 100 * 1024 * 1024
    /\ ~last.ok => (last.ret.zipData = << >> /\ exportFiles = last.arg[4])

\* an export of two records, one of half the ceiling and one a byte larger, was refused
C26_Witness ==
  /\ last.op = "export"
  /\ LastMissing = {}
  /\ Len(LastSelected) = 2
  /\ ~last.ok
  /\ EncryptedBytes(last.pre, LastSelected) = 100 * 1024 * 1024 + 1

(***************************************************************************)
(* Claims about the derivation promise and the cached key                  *)
(***************************************************************************)
\* C27: once a derivation attempt has finished, by success or by a failure of the salt
\* read, of the key derivation or of the salt store, keyDerivationPromise is null: the
\* field never holds an attempt that is no longer pending.
C27_PromiseCleared ==
  \A s \in Servers :
    keyDerivationPromise[s] # 0 => attempts[keyDerivationPromise[s]].status = "pending"

\* the attempts of instance s that assigned the key cache
Assigned(s) == {a \in DOMAIN attempts : attempts[a].srv = s /\ attempts[a].status = "resolved"}

\* caller c calls getDerivedKey() in this step
CallsGetDerivedKey(c) == calls[c].pc = "idle" /\ calls'[c].pc = "awaitKey"

\* a getDerivedKey call on an instance whose cache has been assigned, before close()
\* ends the instance's life, returns the cached key and starts no derivation and
\* leaves the salt row alone
CachedKeyServed ==
  \A c \in Callers :
    LET s == calls'[c].srv
    IN  (CallsGetDerivedKey(c) /\ Assigned(s) # {} /\ ~closed[s]) =>
          /\ derivedKey[s] # 0
          /\ calls'[c].att = 0
          /\ calls'[c].key = derivedKey[s]
          /\ attempts' = attempts
          /\ keyDerivationPromise' = keyDerivationPromise
          /\ crypto_keys' = crypto_keys
          /\ derivedKey' = derivedKey

\* C28: during the life of an instance the key cache is assigned a key at most once, and
\* once it has been assigned every getDerivedKey call returns the cached key without
\* starting a derivation and without reading or writing the salt row.
C28_KeyCachedOnce ==
  /\ [](\A s \in Servers : Cardinality(Assigned(s)) <= 1)
  /\ [][CachedKeyServed]_vars

\* two calls wait with the cached key of an instance whose cache was assigned once
C28_Witness ==
  \E s \in Servers :
    /\ Cardinality(Assigned(s)) = 1
    /\ ~closed[s]
    /\ \A c \in Callers :
         /\ calls[c].pc = "awaitKey"
         /\ calls[c].srv = s
         /\ calls[c].att = 0
         /\ calls[c].key = derivedKey[s]
         /\ derivedKey[s] # 0

\* the attempts that derived a key from a salt of their own and failed to store the salt
SaltStoreFailed ==
  {a \in DOMAIN attempts :
     attempts[a].fresh /\ attempts[a].status = "rejected" /\ keyBytes[a] # NoKey}

\* C29: whenever the key cache of an instance holds a key, the store holds the salt row
\* and the cached key is the key derived from the instance's passphrase and that salt;
\* a key whose freshly generated salt could not be stored is not cached and has
\* encrypted no record.
C29_CachedKeyBacked ==
  /\ \A s \in Servers :
       derivedKey[s] # 0 =>
         /\ crypto_keys # 0
         /\ keyBytes[derivedKey[s]] = Argon2id(password[s], crypto_keys)
  /\ \A a \in SaltStoreFailed :
       /\ derivedKey[attempts[a].srv] # a
       /\ \A id \in DOMAIN evidences : evidences[id].encryptedContent.k # keyBytes[a]

\* the salt of one instance's derivation was refused because the other instance had
\* stored its own; the other instance holds its key and has captured a record with it
C29_Witness ==
  \E a \in SaltStoreFailed, s \in Servers :
    /\ dbOpen[attempts[a].srv]
    /\ s # attempts[a].srv
    /\ derivedKey[s] # 0
    /\ \E id \in DOMAIN evidences : evidences[id].encryptedContent.k = keyBytes[derivedKey[s]]

(***************************************************************************)
(* EvidenceDatabase.getTagCounts                                           *)
(***************************************************************************)
\* row.tags.split(',').map(t => t.trim()).filter(t => t) of a row the query selects
\* (tags IS NOT NULL AND tags != '')
CountedTags(row) ==
  IF row.tags = NULL \/ row.tags = << >> THEN << >>
  ELSE FilterNonEmpty(MapTrim(Split(row.tags)))

\* the increments the loop makes for tag over the rows of ids
RECURSIVE TagIncrements(_, _, _)
TagIncrements(ev, ids, tag) ==
  IF ids = {} THEN 0
  ELSE LET i  == CHOOSE j \in ids : TRUE
           ts == CountedTags(ev[i])
       IN  Cardinality({k \in 1..Len(ts) : ts[k] = tag}) + TagIncrements(ev, ids \ {i}, tag)

\* getTagCounts(): the Map from every tag the loop met to its count
GetTagCounts(ev) ==
  LET keys == UNION {Range(CountedTags(ev[i])) : i \in DOMAIN ev}
  IN  [tag \in keys |-> TagIncrements(ev, DOMAIN ev, tag)]

\* C30: in every store state, for every tag the count getTagCounts() reports equals the
\* number of records search({tags: [tag]}) returns, and a tag getTagCounts() does not
\* report matches no record.
C30_TagCountsAgree ==
  LET tagCounts == GetTagCounts(evidences)
  IN  \A tag \in DOMAIN tagCounts \cup OpTags \cup {TagUpper} :
        LET found == DbSearch(evidences, NULL, << tag >>, NULL, NULL, Undefined, Undefined)
        IN  IF tag \in DOMAIN tagCounts THEN tagCounts[tag] = Len(found)
            ELSE Len(found) = 0

====
